---- MODULE Spec2Model ----
(***************************************************************************)
(* Living Archive: the document-analysis dispatch (src/doc_analyze.py),    *)
(* the retry decorator that wraps it (src/config.py) and the chunk merge   *)
(* (merge_chunk_analyses).                                                 *)
(*                                                                         *)
(* Seconds are modelled as naturals (the defaults 2.0 and 30.0 are 2 and   *)
(* 30); date_confidence is modelled in tenths (0.9 is 9).  Strings that    *)
(* the code searches are sequences of one-character strings; strings that  *)
(* the code only compares or copies are TLA+ strings.                      *)
(***************************************************************************)
EXTENDS Integers, Sequences, FiniteSets, TLC

VARIABLES
    pc,            \* position of the retry wrapper: idle / call / returned / raised
    target,        \* the wrapped function: "fn" or analyze_document's provider name
    max_attempts,  \* retry(max_attempts=...)
    base_delay,    \* retry(base_delay=...)
    max_delay,     \* retry(max_delay=...)
    attempt,       \* loop variable of wrapper
    calls,         \* number of invocations of the wrapped function so far
    sleeps,        \* the delays passed to _time.sleep, in order
    last_exc,      \* wrapper's local last_exc
    outcome,       \* what wrapper returned or raised
    trace,         \* what each invocation of the wrapped function did, in order
    doc_provider,  \* config.DOC_PROVIDER, the default provider name
    adapter,       \* name attribute of the adapter whose analyze ran last
    transports,    \* number of subprocess / HTTP invocations by adapters
    r_events,      \* the wrapper's invocations, warnings and sleeps, in order
    analyses,      \* the list handed to merge_chunk_analyses
    merged,        \* what merge_chunk_analyses returned
    objs,          \* the identities of the objects in analyses, per chunk
    merged_obj,    \* the identities of the two objects merge_chunk_analyses returned
    cli_pc,        \* position of a CLI adapter's analyze: idle / running
    cli_provider,  \* the adapter whose analyze is running or ran last
    cli_ncalls,    \* number of analyze calls started
    tmp_files,     \* the adapter temp files that exist on disk
    cli_paths,     \* schema_path and out_path of the current call
    cli_result,    \* transport outcome and result of the last finished call
    cli_log,       \* provider and result class of every finished call, in order
    work,          \* auto_extract's work list, one rel_path per document
    b_pc,          \* position of auto_extract: idle / next / analyze / exited
    b_i,           \* index in work of the document being handled
    b_nchunks,     \* len(chunks) of the current document
    chunk_results, \* chunk indexes analyzed so far for the current document
    succeeded,     \* auto_extract's counter
    failed,        \* auto_extract's counter
    skipped,       \* auto_extract's counter
    failures,      \* auto_extract's failures list
    handled,       \* the way each loop iteration ended, in order
    events,        \* the calls made for the current document, in order
    texts,         \* documents whose extracted text is on disk
    manifests,     \* documents whose manifest is on disk
    exit_code,     \* exit status of auto_extract once it has ended
    schema_in,     \* the schema handed to _make_openai_strict
    schema_out,    \* the schema _make_openai_strict returned
    inf_text_len,  \* len(text) of the last successful analyze call
    inf_usage,     \* the usage the provider reported for that call
    inference,     \* the DocumentInferenceMetadata that call returned
    codex_stdout,  \* the lines of result.stdout of the Codex CLI
    usage_result,  \* the token counts read from them, or the exception raised
    m_pc,          \* position of write_manifest: idle / dump / rename
    m_sha,         \* source_sha256 of the current or last write_manifest call
    m_ncalls,      \* number of write_manifest calls started
    m_dir,         \* the .json files of the manifests directory, name and content
    m_tmp,         \* the .tmp files of the manifests directory
    m_before,      \* m_dir as it was when the current call began
    m_result,      \* what the last write_manifest call returned or raised
    c_pc,          \* position of chunk_for_analysis: idle / done
    c_result,      \* the ExtractionResult handed to chunk_for_analysis
    c_chunk_pages, \* the chunk_pages argument
    chunks,        \* the list chunk_for_analysis returned
    rs_pc,         \* resume: none, idle or running
    rs_runs,       \* invocations of main() for the run so far
    rs_docs,       \* what scan_pdfs returns
    rs_dir,        \* the run's manifests directory
    rs_work,       \* the work list of the current invocation
    rs_i,          \* index of the next document of rs_work
    rs_written,    \* sha256 of every manifest written in the run
    rs_before      \* rs_written when the work list was built

retryVars == <<pc, target, max_attempts, base_delay, max_delay, attempt,
               calls, sleeps, last_exc, outcome, trace, doc_provider, adapter,
               transports, r_events>>
mergeVars == <<analyses, merged, objs, merged_obj>>
cliVars == <<cli_pc, cli_provider, cli_ncalls, tmp_files, cli_paths,
             cli_result, cli_log>>
batchVars == <<work, b_pc, b_i, b_nchunks, chunk_results, succeeded, failed,
               skipped, failures, handled, events, texts, manifests, exit_code>>
strictVars == <<schema_in, schema_out>>
infVars == <<inf_text_len, inf_usage, inference>>
usageVars == <<codex_stdout, usage_result>>
manifestVars == <<m_pc, m_sha, m_ncalls, m_dir, m_tmp, m_before, m_result>>
chunkVars == <<c_pc, c_result, c_chunk_pages, chunks>>
resumeVars == <<rs_pc, rs_runs, rs_docs, rs_dir, rs_work, rs_i, rs_written, rs_before>>
vars == <<pc, target, max_attempts, base_delay, max_delay, attempt,
          calls, sleeps, last_exc, outcome, trace, doc_provider, adapter,
          transports, r_events, analyses, merged,
          objs, merged_obj, cli_pc, cli_provider, cli_ncalls, tmp_files,
          cli_paths, cli_result, cli_log, work, b_pc, b_i, b_nchunks,
          chunk_results, succeeded, failed, skipped, failures, handled,
          events, texts, manifests, exit_code,
          schema_in, schema_out,
          inf_text_len, inf_usage, inference,
          codex_stdout, usage_result,
          m_pc, m_sha, m_ncalls, m_dir, m_tmp, m_before, m_result,
          c_pc, c_result, c_chunk_pages, chunks,
          rs_pc, rs_runs, rs_docs, rs_dir, rs_work, rs_i, rs_written, rs_before>>
nonRetryVars == <<mergeVars, cliVars, batchVars, strictVars, infVars, usageVars, manifestVars, chunkVars, resumeVars>>
nonMergeVars == <<retryVars, cliVars, batchVars, strictVars, infVars, usageVars, manifestVars, chunkVars, resumeVars>>
nonCliVars == <<retryVars, mergeVars, batchVars, strictVars, infVars, usageVars, manifestVars, chunkVars, resumeVars>>
nonBatchVars == <<retryVars, mergeVars, cliVars, strictVars, infVars, usageVars, manifestVars, chunkVars, resumeVars>>
nonStrictVars == <<mergeVars, cliVars, batchVars, retryVars, infVars, usageVars, manifestVars, chunkVars, resumeVars>>
nonInfVars == <<mergeVars, cliVars, batchVars, strictVars, retryVars, usageVars, manifestVars, chunkVars, resumeVars>>
nonUsageVars == <<mergeVars, cliVars, batchVars, strictVars, infVars, retryVars, manifestVars, chunkVars, resumeVars>>
nonManifestVars == <<mergeVars, cliVars, batchVars, strictVars, infVars, usageVars, retryVars, chunkVars, resumeVars>>
nonChunkVars == <<mergeVars, cliVars, batchVars, strictVars, infVars, usageVars, manifestVars, retryVars, resumeVars>>
nonResumeVars == <<mergeVars, cliVars, batchVars, strictVars, infVars, usageVars, manifestVars, chunkVars, retryVars>>

None == [none |-> TRUE]

(***************************************************************************)
(* Bounds of the model.                                                    *)
(***************************************************************************)
MaxAttempts == 3     \* largest max_attempts a decorator is built with
MaxBaseDelay == 3    \* largest base_delay a decorator is built with
MaxChunks == 3       \* longest list handed to merge_chunk_analyses
MaxTokens == 1       \* largest token count a provider reports for one chunk

(***************************************************************************)
(* Program constants.                                                      *)
(***************************************************************************)
DefaultMaxAttempts == 3
DefaultBaseDelay == 2
DefaultMaxDelay == 30

MaxDelays == {1, 5, DefaultMaxDelay}

Min(a, b) == IF a <= b THEN a ELSE b

RECURSIVE Pow2(_)
Pow2(n) == IF n <= 0 THEN 1 ELSE 2 * Pow2(n - 1)

(***************************************************************************)
(* Exceptions.  An exception is a record: its class, the HTTP status it    *)
(* carries (0 when it carries none) and the invocation that created it     *)
(* (the identity of the exception object).                                 *)
(***************************************************************************)
Statuses == {400, 401, 403, 404, 429, 500, 502, 503}

Exc(cls, status, id) == [cls |-> cls, status |-> status, id |-> id]

\* the classes an exception is an instance of (itself and its bases).
\* CliRateLimitError is imported from config (doc_analyze.py:19); config
\* imports httpx and anthropic only inside its functions, so the class
\* derives from none of theirs.  subprocess.TimeoutExpired, TimeoutError and
\* the urllib errors are standard-library classes unrelated to httpx.
Bases(cls) ==
    CASE cls = "httpx.ReadTimeout"   -> {"httpx.ReadTimeout", "httpx.TimeoutException"}
      [] cls = "httpx.ConnectTimeout" -> {"httpx.ConnectTimeout", "httpx.TimeoutException"}
      [] cls = "urllib.error.HTTPError" -> {"urllib.error.HTTPError", "urllib.error.URLError"}
      [] OTHER -> {cls}

isinstance(exc, classes) == Bases(exc.cls) \cap classes # {}

_RETRYABLE_EXCEPTIONS ==
    {"httpx.ConnectError", "httpx.TimeoutException",
     "anthropic.RateLimitError", "anthropic.APIConnectionError"}

_is_retryable_status_any(exc) ==
    isinstance(exc, {"httpx.HTTPStatusError"})

_is_retryable_status(exc) ==
    IF isinstance(exc, {"httpx.HTTPStatusError"})
    THEN exc.status \in {429, 500, 502, 503}
    ELSE FALSE

\* the two except clauses of wrapper: TRUE when the exception is kept in
\* last_exc, FALSE when it is re-raised at once
Caught(exc) ==
    \/ isinstance(exc, _RETRYABLE_EXCEPTIONS)
    \/ _is_retryable_status(exc)

DelayDoubling(a, base, maxd) == Min(base * Pow2(a), maxd)

Delay(a, base, maxd) == Min(base * Pow2(a - 1), maxd)

SleepsAfterNever(a, maxa) == FALSE

\* if attempt < max_attempts
SleepsAfter(a, maxa) == a < maxa

\* what the wrapper does, in order: an invocation of fn with its result, the
\* warning of _log.warning, the sleep of _time.sleep
CallEvent(a, r) == [ev |-> "call", attempt |-> a, kind |-> r.kind]
WarnEvent(a, maxa, delay, exc) ==
    [ev |-> "warning", attempt |-> a, max_attempts |-> maxa, delay |-> delay,
     exc |-> exc]
SleepEvent(delay) == [ev |-> "sleep", delay |-> delay]

BackoffEventsSleepFirst(a, maxa, base, maxd, exc) ==
    IF SleepsAfter(a, maxa)
    THEN <<SleepEvent(Delay(a, base, maxd)),
           WarnEvent(a, maxa, Delay(a, base, maxd), exc)>>
    ELSE <<>>

\* the if block after the except clauses: the warning, then the sleep
BackoffEvents(a, maxa, base, maxd, exc) ==
    IF SleepsAfter(a, maxa)
    THEN <<WarnEvent(a, maxa, Delay(a, base, maxd), exc),
           SleepEvent(Delay(a, base, maxd))>>
    ELSE <<>>

LastIterationEarly(a, maxa) == a + 1 >= maxa

\* range(1, max_attempts + 1) is exhausted after iteration max_attempts
LastIteration(a, maxa) == a >= maxa

(***************************************************************************)
(* Rate-limit detection on a CLI's stderr.                                 *)
(***************************************************************************)
_RATE_LIMIT_SIGNALS ==
    << <<"r", "a", "t", "e", " ", "l", "i", "m", "i", "t">>,
       <<"r", "a", "t", "e", "_", "l", "i", "m", "i", "t">>,
       <<"4", "2", "9">>,
       <<"q", "u", "o", "t", "a">>,
       <<"t", "r", "y", " ", "a", "g", "a", "i", "n", " ", "l", "a", "t", "e", "r">>,
       <<"o", "v", "e", "r", "l", "o", "a", "d", "e", "d">>,
       <<"c", "a", "p", "a", "c", "i", "t", "y">>,
       <<"c", "o", "o", "l", "d", "o", "w", "n">> >>

LowerChar(c) ==
    CASE c = "A" -> "a" [] c = "B" -> "b" [] c = "C" -> "c" [] c = "D" -> "d"
      [] c = "E" -> "e" [] c = "F" -> "f" [] c = "G" -> "g" [] c = "H" -> "h"
      [] c = "I" -> "i" [] c = "J" -> "j" [] c = "K" -> "k" [] c = "L" -> "l"
      [] c = "M" -> "m" [] c = "N" -> "n" [] c = "O" -> "o" [] c = "P" -> "p"
      [] c = "Q" -> "q" [] c = "R" -> "r" [] c = "S" -> "s" [] c = "T" -> "t"
      [] c = "U" -> "u" [] c = "V" -> "v" [] c = "W" -> "w" [] c = "X" -> "x"
      [] c = "Y" -> "y" [] c = "Z" -> "z" [] OTHER -> c

Lower(s) == [i \in 1..Len(s) |-> LowerChar(s[i])]

\* Python's  sub in s
Contains(s, sub) ==
    \E i \in 0..(Len(s) - Len(sub)) :
        \A j \in 1..Len(sub) : s[i + j] = sub[j]

_is_rate_limit_error(stderr) ==
    \E k \in 1..Len(_RATE_LIMIT_SIGNALS) :
        Contains(Lower(stderr), _RATE_LIMIT_SIGNALS[k])

\* the slice bound of stderr[:500]
StderrLimit == 500

Filler(n) == [i \in 1..n |-> "x"]

\* a stderr longer than the slice whose only signal lies beyond it
LongRateLimited == Filler(StderrLimit) \o <<"4", "2", "9">>

\* a stderr longer than the slice without any signal
LongOther == Filler(StderrLimit + 3)

StderrSamples ==
    { <<>>,
      <<"R", "a", "t", "e", " ", "L", "i", "m", "i", "t", " ", "h",
        "i", "t">>,
      <<"i", "n", "v", "a", "l", "i", "d", " ", "A", "P", "I", " ",
        "k", "e", "y">>,
      <<"R", "a", "t", "e", " ", "l", "i", "m", "i", "t", " ", "e",
        "x", "c", "e", "e", "d", "e", "d", ",", " ", "t", "r", "y",
        " ", "a", "g", "a", "i", "n", " ", "l", "a", "t", "e", "r">>,
      <<"r", "a", "t", "e", "_", "l", "i", "m", "i", "t", "_", "e",
        "r", "r", "o", "r">>,
      <<"H", "T", "T", "P", " ", "4", "2", "9">>,
      <<"Q", "u", "o", "t", "a", " ", "u", "s", "e", "d", " ", "u",
        "p">>,
      <<"s", "e", "r", "v", "e", "r", " ", "O", "V", "E", "R", "L",
        "O", "A", "D", "E", "D">>,
      <<"a", "t", " ", "c", "a", "p", "a", "c", "i", "t", "y">>,
      <<"i", "n", " ", "C", "o", "o", "l", "d", "o", "w", "n">>,
      <<"p", "e", "r", "m", "i", "s", "s", "i", "o", "n", " ", "d",
        "e", "n", "i", "e", "d">>,
      LongRateLimited,
      LongOther }

(***************************************************************************)
(* Providers.  What one invocation of the wrapped function does is decided *)
(* by the outcome of its transport: a subprocess for the two CLI adapters, *)
(* an HTTP request for the Ollama adapter.                                 *)
(***************************************************************************)
_PROVIDERS == {"claude-cli", "codex", "ollama"}

ProviderNames == _PROVIDERS \cup {"bogus"}

Bodies == {"ok", "badjson", "invalid"}

SubprocessOutcomes ==
    {[t |-> "timeout"]}
    \cup {[t |-> "exit", returncode |-> 1, stderr |-> s] : s \in StderrSamples}
    \cup {[t |-> "exit", returncode |-> 0, body |-> b] : b \in Bodies}

\* the Codex CLI can also exit 0 having removed the file named by -o
CodexOutcomes ==
    SubprocessOutcomes \cup {[t |-> "exit", returncode |-> 0, body |-> "missing"]}

UrlopenOutcomes ==
    {[t |-> "timeout"], [t |-> "refused"]}
    \cup {[t |-> "http", status |-> s] : s \in Statuses}
    \cup {[t |-> "http", status |-> 200, body |-> b] : b \in Bodies}

\* a value the wrapped function returns or an exception it raises
Returns(id) == [kind |-> "return", id |-> id]
Raises(exc) == [kind |-> "raise", exc |-> exc]

ParseBody(body, id) ==
    CASE body = "ok"      -> Returns(id)
      [] body = "badjson" -> Raises(Exc("json.JSONDecodeError", 0, id))
      [] body = "missing" -> Raises(Exc("FileNotFoundError", 0, id))
      [] OTHER            -> Raises(Exc("pydantic.ValidationError", 0, id))

\* ClaudeCliProvider.analyze and CodexCliProvider.analyze
CliAnalyze(o, id) ==
    IF o.t = "timeout" THEN Raises(Exc("subprocess.TimeoutExpired", 0, id))
    ELSE IF o.returncode # 0
         THEN IF o.stderr # <<>> /\ _is_rate_limit_error(o.stderr)
              THEN Raises(Exc("CliRateLimitError", 0, id))
              ELSE Raises(Exc("RuntimeError", 0, id))
         ELSE ParseBody(o.body, id)

\* OllamaProvider.analyze
OllamaAnalyze(o, id) ==
    CASE o.t = "timeout" -> Raises(Exc("TimeoutError", 0, id))
      [] o.t = "refused" -> Raises(Exc("urllib.error.URLError", 0, id))
      [] o.t = "http" /\ o.status # 200 ->
             Raises(Exc("urllib.error.HTTPError", o.status, id))
      [] OTHER -> ParseBody(o.body, id)

\* the provider_name that stands for "not given": None or the empty string
NoName == ""

\* no adapter has been instantiated
NoAdapter == ""

_PROVIDER_CLASSES_rotated ==
    [k \in _PROVIDERS |->
        CASE k = "claude-cli" -> "CodexCliProvider"
          [] k = "codex"      -> "OllamaProvider"
          [] OTHER            -> "ClaudeCliProvider"]

\* the registry: key -> adapter class
_PROVIDER_CLASSES ==
    [k \in _PROVIDERS |->
        CASE k = "claude-cli" -> "ClaudeCliProvider"
          [] k = "codex"      -> "CodexCliProvider"
          [] OTHER            -> "OllamaProvider"]

\* list(_PROVIDERS)
_PROVIDERS_keys == <<"claude-cli", "codex", "ollama">>

\* the name attribute of each adapter class
AdapterName(cls) ==
    CASE cls = "ClaudeCliProvider" -> "claude-cli"
      [] cls = "CodexCliProvider"  -> "codex"
      [] OTHER                     -> "ollama"

Resolved(cls) == [kind |-> "return", cls |-> cls, adapter |-> AdapterName(cls)]

UnknownProvider(n) ==
    [kind |-> "raise", cls |-> "ValueError", name |-> n, choices |-> _PROVIDERS_keys]

get_provider_fallback(name, dflt) ==
    LET n == IF name = NoName THEN dflt ELSE name
    IN  IF n \in DOMAIN _PROVIDER_CLASSES
        THEN Resolved(_PROVIDER_CLASSES[n])
        ELSE Resolved("ClaudeCliProvider")

\* get_provider(name); dflt is config.DOC_PROVIDER
get_provider(name, dflt) ==
    LET n == IF name = NoName THEN dflt ELSE name
    IN  IF n \in DOMAIN _PROVIDER_CLASSES
        THEN Resolved(_PROVIDER_CLASSES[n])
        ELSE UnknownProvider(n)

\* get_provider followed by provider.analyze
analyze_document(name, dflt, o, id) ==
    LET p == get_provider(name, dflt)
    IN  IF p.kind = "raise"
        THEN Raises([cls |-> p.cls, status |-> 0, id |-> id,
                     name |-> p.name, choices |-> p.choices])
        ELSE IF p.cls = "OllamaProvider" THEN OllamaAnalyze(o, id)
        ELSE CliAnalyze(o, id)

\* what the transport of the resolved adapter can do
TransportOutcomes(name, dflt) ==
    LET p == get_provider(name, dflt)
    IN  IF p.kind = "raise" THEN {[t |-> "none"]}
        ELSE IF p.cls = "OllamaProvider" THEN UrlopenOutcomes
        ELSE IF p.cls = "CodexCliProvider" THEN CodexOutcomes
        ELSE SubprocessOutcomes

\* TRUE when an invocation of the wrapped function reaches an adapter's analyze
ReachesAdapter(tgt, dflt) == tgt # "fn" /\ get_provider(tgt, dflt).kind = "return"

AdapterAfter(tgt, dflt, prev) ==
    IF ReachesAdapter(tgt, dflt) THEN get_provider(tgt, dflt).adapter ELSE prev

TransportsAfter(tgt, dflt, n) ==
    IF ReachesAdapter(tgt, dflt) THEN n + 1 ELSE n

\* the other functions decorated with retry(): the httpx calls of immich.py
FnClasses ==
    {"httpx.ConnectError", "httpx.ReadTimeout", "anthropic.RateLimitError",
     "anthropic.APIConnectionError", "ValueError", "KeyError"}

FnResults(id) ==
    {Returns(id)}
    \cup {Raises(Exc(c, 0, id)) : c \in FnClasses}
    \cup {Raises(Exc("httpx.HTTPStatusError", s, id)) : s \in Statuses}

\* every result invocation number id of the wrapped function can have
Results(tgt, dflt, id) ==
    IF tgt = "fn" THEN FnResults(id)
    ELSE {analyze_document(tgt, dflt, o, id) : o \in TransportOutcomes(tgt, dflt)}

(***************************************************************************)
(* The retry wrapper (config.retry.decorator.wrapper).                     *)
(***************************************************************************)
RetryInit ==
    /\ pc = "idle"
    /\ target = "fn"
    /\ max_attempts = DefaultMaxAttempts
    /\ base_delay = DefaultBaseDelay
    /\ max_delay = DefaultMaxDelay
    /\ attempt = 0
    /\ calls = 0
    /\ sleeps = <<>>
    /\ last_exc = None
    /\ outcome = None
    /\ trace = <<>>
    /\ doc_provider = NoName
    /\ adapter = NoAdapter
    /\ transports = 0
    /\ r_events = <<>>

\* a function decorated with retry(max_attempts, base_delay, max_delay) is called
CallFn ==
    /\ pc = "idle"
    /\ \E m \in 1..MaxAttempts, b \in 0..MaxBaseDelay, d \in MaxDelays :
          /\ max_attempts' = m
          /\ base_delay' = b
          /\ max_delay' = d
    /\ target' = "fn"
    /\ pc' = "call"
    /\ attempt' = 1
    /\ UNCHANGED <<calls, sleeps, last_exc, outcome, trace, doc_provider,
                   adapter, transports, r_events>>
    /\ UNCHANGED nonRetryVars

\* analyze_document, decorated with retry() and its defaults, is called
CallAnalyzeDocument ==
    /\ pc = "idle"
    /\ \E p \in ProviderNames \cup {NoName}, dflt \in ProviderNames :
          /\ target' = p
          /\ doc_provider' = dflt
    /\ max_attempts' = DefaultMaxAttempts
    /\ base_delay' = DefaultBaseDelay
    /\ max_delay' = DefaultMaxDelay
    /\ pc' = "call"
    /\ attempt' = 1
    /\ UNCHANGED <<calls, sleeps, last_exc, outcome, trace, adapter, transports,
                   r_events>>
    /\ UNCHANGED nonRetryVars

\* one iteration of the loop: fn returns
AttemptReturns ==
    /\ pc = "call"
    /\ \E r \in Results(target, doc_provider, calls + 1) :
          /\ r.kind = "return"
          /\ outcome' = r
          /\ trace' = Append(trace, r)
          /\ r_events' = Append(r_events, CallEvent(attempt, r))
    /\ calls' = calls + 1
    /\ pc' = "returned"
    /\ adapter' = AdapterAfter(target, doc_provider, adapter)
    /\ transports' = TransportsAfter(target, doc_provider, transports)
    /\ UNCHANGED doc_provider
    /\ UNCHANGED <<target, max_attempts, base_delay, max_delay, attempt,
                   sleeps, last_exc>>
    /\ UNCHANGED nonRetryVars

\* one iteration of the loop: fn raises and the exception is re-raised at once
AttemptPropagates ==
    /\ pc = "call"
    /\ \E r \in Results(target, doc_provider, calls + 1) :
          /\ r.kind = "raise"
          /\ ~Caught(r.exc)
          /\ outcome' = r
          /\ trace' = Append(trace, r)
          /\ r_events' = Append(r_events, CallEvent(attempt, r))
    /\ calls' = calls + 1
    /\ pc' = "raised"
    /\ adapter' = AdapterAfter(target, doc_provider, adapter)
    /\ transports' = TransportsAfter(target, doc_provider, transports)
    /\ UNCHANGED doc_provider
    /\ UNCHANGED <<target, max_attempts, base_delay, max_delay, attempt,
                   sleeps, last_exc>>
    /\ UNCHANGED nonRetryVars

\* one iteration of the loop: fn raises, the exception is kept, the wrapper
\* sleeps and the loop goes on
AttemptRetries ==
    /\ pc = "call"
    /\ ~LastIteration(attempt, max_attempts)
    /\ \E r \in Results(target, doc_provider, calls + 1) :
          /\ r.kind = "raise"
          /\ Caught(r.exc)
          /\ last_exc' = r.exc
          /\ trace' = Append(trace, r)
          /\ r_events' = Append(r_events, CallEvent(attempt, r))
                          \o BackoffEvents(attempt, max_attempts, base_delay,
                                           max_delay, r.exc)
    /\ calls' = calls + 1
    /\ sleeps' = IF SleepsAfter(attempt, max_attempts)
                 THEN Append(sleeps, Delay(attempt, base_delay, max_delay))
                 ELSE sleeps
    /\ attempt' = attempt + 1
    /\ adapter' = AdapterAfter(target, doc_provider, adapter)
    /\ transports' = TransportsAfter(target, doc_provider, transports)
    /\ UNCHANGED doc_provider
    /\ UNCHANGED <<pc, target, max_attempts, base_delay, max_delay, outcome>>
    /\ UNCHANGED nonRetryVars

\* the last iteration of the loop: fn raises, the exception is kept, the loop
\* ends and last_exc is raised
AttemptExhausts ==
    /\ pc = "call"
    /\ LastIteration(attempt, max_attempts)
    /\ \E r \in Results(target, doc_provider, calls + 1) :
          /\ r.kind = "raise"
          /\ Caught(r.exc)
          /\ last_exc' = r.exc
          /\ trace' = Append(trace, r)
          /\ r_events' = Append(r_events, CallEvent(attempt, r))
                          \o BackoffEvents(attempt, max_attempts, base_delay,
                                           max_delay, r.exc)
          /\ outcome' = Raises(r.exc)
    /\ calls' = calls + 1
    /\ sleeps' = IF SleepsAfter(attempt, max_attempts)
                 THEN Append(sleeps, Delay(attempt, base_delay, max_delay))
                 ELSE sleeps
    /\ pc' = "raised"
    /\ adapter' = AdapterAfter(target, doc_provider, adapter)
    /\ transports' = TransportsAfter(target, doc_provider, transports)
    /\ UNCHANGED doc_provider
    /\ UNCHANGED <<target, max_attempts, base_delay, max_delay, attempt>>
    /\ UNCHANGED nonRetryVars

(***************************************************************************)
(* Chunk results (models.DocumentAnalysis, models.DocumentInferenceMetadata)*)
(***************************************************************************)
NoSensitivity == [has_ssn |-> FALSE, has_financial |-> FALSE, has_medical |-> FALSE]

DefaultAnalysis ==
    [document_type |-> "", title |-> "", date |-> "", date_confidence |-> 0,
     summary_en |-> "", summary_zh |-> "", key_people |-> <<>>,
     key_dates |-> <<>>, sensitivity |-> NoSensitivity, tags |-> <<>>,
     language |-> "", quality |-> ""]

DefaultInference ==
    [method |-> "", provider |-> "", model |-> "", prompt_version |-> "",
     timestamp |-> "", input_tokens |-> 0, output_tokens |-> 0,
     chunk_count |-> 1]

\* what a provider's analyze returns for one chunk
ProviderInference ==
    [DefaultInference EXCEPT !.method = "auto", !.provider = "claude-cli",
                             !.model = "sonnet",
                             !.prompt_version = "document_analysis_v1",
                             !.timestamp = "t-chunk"]

Pair(a, inf) == [a |-> a, inf |-> inf]

Dates == {"1978-06", "1985"}
Confidences == {0, 5, 9}
TagLists == {<<>>, <<"a">>, <<"b">>, <<"a", "a">>, <<"a", "b">>, <<"b", "a">>,
             <<"b", "b">>}
PeopleLists == {<<"p">>, <<"q", "p">>}
KeyDateLists == {<<"d">>, <<"d", "e">>}

\* the chunk results the model draws from: each varies one group of fields
\* of the provider's answer and leaves the others at the model defaults
DateChunks ==
    {Pair([DefaultAnalysis EXCEPT !.date = d, !.date_confidence = c],
          ProviderInference) : d \in Dates, c \in Confidences}

ListChunks ==
    {Pair([DefaultAnalysis EXCEPT !.tags = t], ProviderInference) : t \in TagLists}
    \cup {Pair([DefaultAnalysis EXCEPT !.key_people = l], ProviderInference) :
              l \in PeopleLists}
    \cup {Pair([DefaultAnalysis EXCEPT !.key_dates = l], ProviderInference) :
              l \in KeyDateLists}

SensitivityChunks ==
    {Pair([DefaultAnalysis EXCEPT !.sensitivity =
              [has_ssn |-> s, has_financial |-> f, has_medical |-> m]],
          ProviderInference) : s \in BOOLEAN, f \in BOOLEAN, m \in BOOLEAN}

TokenChunks ==
    {Pair(DefaultAnalysis,
          [ProviderInference EXCEPT !.input_tokens = i, !.output_tokens = o]) :
        i \in 0..MaxTokens, o \in 0..MaxTokens}

\* document_type, title, language, quality of two different answers
Headers ==
    {[document_type |-> "letter", title |-> "T1", language |-> "en", quality |-> "good"],
     [document_type |-> "deed", title |-> "T2", language |-> "zh", quality |-> "poor"]}

HeaderChunks ==
    {Pair([DefaultAnalysis EXCEPT !.document_type = h.document_type,
                                  !.title = h.title,
                                  !.language = h.language,
                                  !.quality = h.quality],
          ProviderInference) : h \in Headers}

\* a result with other provenance, such as the result of an earlier merge
OtherInference ==
    [DefaultInference EXCEPT !.method = "manual", !.provider = "codex",
                             !.model = "codex-default",
                             !.prompt_version = "document_analysis_v2",
                             !.timestamp = "t-chunk", !.chunk_count = 2]

OtherProviderChunks == {Pair(DefaultAnalysis, OtherInference)}

Summaries ==
    {[en |-> "A", zh |-> "x"], [en |-> "B", zh |-> ""], [en |-> "", zh |-> "y"]}

SummaryChunks ==
    {Pair([DefaultAnalysis EXCEPT !.summary_en = m.en, !.summary_zh = m.zh],
          ProviderInference) : m \in Summaries}

Chunks == DateChunks \cup ListChunks \cup SensitivityChunks \cup TokenChunks
          \cup HeaderChunks \cup OtherProviderChunks \cup SummaryChunks

(***************************************************************************)
(* merge_chunk_analyses                                                    *)
(***************************************************************************)
BetterOrEqual(conf, best) == conf >= best

\* the comparison that replaces the best date
Better(conf, best) == conf > best

\* the loop over analyses[1:]; best is <<best_date, best_date_conf>>
RECURSIVE BestDateLoop(_, _, _)
BestDateLoop(as, i, best) ==
    IF i > Len(as) THEN best
    ELSE BestDateLoop(as, i + 1,
                      IF Better(as[i].a.date_confidence, best[2])
                      THEN <<as[i].a.date, as[i].a.date_confidence>>
                      ELSE best)

BestDate(as) ==
    BestDateLoop(as, 2, <<as[1].a.date, as[1].a.date_confidence>>)

InSeq(x, s) == \E i \in 1..Len(s) : s[i] = x

RECURSIVE Concat(_)
Concat(lists) ==
    IF lists = <<>> THEN <<>> ELSE Head(lists) \o Concat(Tail(lists))

\* the two loops of _union_lists over the items in order; result doubles as seen
RECURSIVE UnionLoop(_, _)
UnionLoop(items, result) ==
    IF items = <<>> THEN result
    ELSE UnionLoop(Tail(items),
                   IF ~InSeq(Head(items), result)
                   THEN Append(result, Head(items))
                   ELSE result)

_union_lists_keep_all(lists) == Concat(lists)

_union_lists(lists) == UnionLoop(Concat(lists), <<>>)

any_ssn(as, flag) == \E i \in 1..Len(as) : as[i].a.sensitivity.has_ssn

\* any(a.sensitivity.<flag> for a, _ in analyses)
any_flag(as, flag) == \E i \in 1..Len(as) : as[i].a.sensitivity[flag]

RECURSIVE SumFrom(_, _, _)
SumFrom(as, field, i) ==
    IF i > Len(as) THEN 0 ELSE as[i].inf[field] + SumFrom(as, field, i + 1)

sum_tokens_skip_first(as, field) == SumFrom(as, field, 2)

\* sum(inf.<field> for _, inf in analyses)
sum_tokens(as, field) == SumFrom(as, field, 1)

chunk_count(as) == Len(as)

IsSingleNever(as) == FALSE

\* if len(analyses) == 1
IsSingle(as) == Len(as) = 1

LastChunk(as) == as[Len(as)]

\* analyses[0]
FirstChunk(as) == as[1]

AllParts(as, field) == [i \in 1..Len(as) |-> as[i].a[field]]

\* [a.<field> for a, _ in analyses if a.<field>]
NonEmptyParts(as, field) ==
    SelectSeq([i \in 1..Len(as) |-> as[i].a[field]], LAMBDA t : t # "")

\* sep.join(parts)
RECURSIVE Join(_, _)
Join(parts, sep) ==
    IF parts = <<>> THEN ""
    ELSE IF Len(parts) = 1 THEN parts[1]
    ELSE parts[1] \o sep \o Join(Tail(parts), sep)

merge_chunk_analyses(as) ==
    IF IsSingle(as) THEN as[1]
    ELSE
    LET first_analysis == FirstChunk(as).a
        first_inference == FirstChunk(as).inf
        best == BestDate(as)
        merged_analysis ==
            [document_type |-> first_analysis.document_type,
             title |-> first_analysis.title,
             date |-> best[1],
             date_confidence |-> best[2],
             summary_en |-> Join(NonEmptyParts(as, "summary_en"), " "),
             summary_zh |-> Join(NonEmptyParts(as, "summary_zh"), ""),
             key_people |-> _union_lists([i \in 1..Len(as) |-> as[i].a.key_people]),
             key_dates |-> _union_lists([i \in 1..Len(as) |-> as[i].a.key_dates]),
             sensitivity |->
                 [has_ssn |-> any_flag(as, "has_ssn"),
                  has_financial |-> any_flag(as, "has_financial"),
                  has_medical |-> any_flag(as, "has_medical")],
             tags |-> _union_lists([i \in 1..Len(as) |-> as[i].a.tags]),
             language |-> first_analysis.language,
             quality |-> first_analysis.quality]
        merged_inference ==
            [method |-> first_inference.method,
             provider |-> first_inference.provider,
             model |-> first_inference.model,
             prompt_version |-> first_inference.prompt_version,
             timestamp |-> "t-merge",
             input_tokens |-> sum_tokens(as, "input_tokens"),
             output_tokens |-> sum_tokens(as, "output_tokens"),
             chunk_count |-> chunk_count(as)]
    IN  Pair(merged_analysis, merged_inference)

\* the objects merge_chunk_analyses returns: the input pair itself for one
\* chunk, else the two instances its constructor calls create
merged_instances_reuse_first(as, ids, fresh) ==
    IF IsSingle(as) THEN ids[1] ELSE [a |-> fresh, inf |-> ids[1].inf]

merged_instances(as, ids, fresh) ==
    IF IsSingle(as) THEN ids[1] ELSE [a |-> fresh, inf |-> fresh + 1]

\* the input list after the call: no statement of merge_chunk_analyses
\* assigns to an attribute of an input or appends to one of its lists
inputs_after_merge(as) == as

MergeInit ==
    /\ analyses = <<>>
    /\ merged = None
    /\ objs = <<>>
    /\ merged_obj = None

\* chunk_results.append((analysis, inference))
AppendChunk ==
    /\ merged = None
    /\ Len(analyses) < MaxChunks
    /\ \E c \in Chunks : analyses' = Append(analyses, c)
    /\ objs' = Append(objs, [a |-> 2 * Len(objs) + 1, inf |-> 2 * Len(objs) + 2])
    /\ UNCHANGED <<merged, merged_obj>>
    /\ UNCHANGED nonMergeVars

\* merge_chunk_analyses(chunk_results)
MergeChunkAnalyses ==
    /\ merged = None
    /\ Len(analyses) >= 1
    /\ merged' = merge_chunk_analyses(analyses)
    /\ merged_obj' = merged_instances(analyses, objs, 2 * Len(objs) + 1)
    /\ analyses' = inputs_after_merge(analyses)
    /\ UNCHANGED objs
    /\ UNCHANGED nonMergeVars

(***************************************************************************)
(* One call of a CLI adapter's analyze at a time, with the temporary files *)
(* of the Codex adapter.  A call is two steps: up to the start of the      *)
(* subprocess, and from the subprocess's end to the return or raise.       *)
(***************************************************************************)
MaxCalls == 2

CliProviders == {"claude-cli", "codex"}

\* the characters of 'no stderr'
NoStderr == <<"n", "o", " ", "s", "t", "d", "e", "r", "r">>

TruncateNone(s, n) == s

\* s[:n]
Truncate(s, n) == SubSeq(s, 1, Min(n, Len(s)))

\* the f-string msg of the non-zero-exit branch
ExitMessage(p, rc, stderr) ==
    [cli        |-> IF p = "codex" THEN "Codex CLI" ELSE "Claude CLI",
     returncode |-> rc,
     text       |-> IF stderr # <<>> THEN Truncate(stderr, StderrLimit)
                    ELSE NoStderr]

\* the two names tempfile.mkstemp returns to call n of the Codex adapter;
\* the Claude adapter creates no file
TempPaths(p, n) ==
    IF p = "codex"
    THEN {[prefix |-> "codex-schema-", n |-> n], [prefix |-> "codex-out-", n |-> n]}
    ELSE {}

\* what the subprocess of adapter p can do
CliOutcomes(p) == IF p = "codex" THEN CodexOutcomes ELSE SubprocessOutcomes

\* the files on disk when the subprocess has ended
FilesAtExit(fs, paths, o) ==
    IF o.t = "exit" /\ o.returncode = 0 /\ o.body = "missing"
    THEN fs \ {f \in paths : f.prefix = "codex-out-"}
    ELSE fs

\* result of the call and, on a non-zero exit, the message of the exception
CliCall(p, o, n) ==
    [provider |-> p,
     o        |-> o,
     res      |-> CliAnalyze(o, n),
     msg      |-> IF o.t = "exit" /\ o.returncode # 0
                  THEN ExitMessage(p, o.returncode, o.stderr)
                  ELSE None]

FinallyOnReturn(fs, paths, res) == IF res.kind = "return" THEN fs \ paths ELSE fs

\* the finally block: both unlink(missing_ok=True), whatever the result
Finally(fs, paths, res) == fs \ paths

ResultClass(res) == IF res.kind = "return" THEN "return" ELSE res.exc.cls

CliInit ==
    /\ cli_pc = "idle"
    /\ cli_provider = NoAdapter
    /\ cli_ncalls = 0
    /\ tmp_files = {}
    /\ cli_paths = {}
    /\ cli_result = None
    /\ cli_log = <<>>

\* analyze up to subprocess.run: the Codex adapter has made its two files
CliStart ==
    /\ cli_pc = "idle"
    /\ cli_ncalls < MaxCalls
    /\ \E p \in CliProviders :
        /\ cli_provider' = p
        /\ cli_paths' = TempPaths(p, cli_ncalls + 1)
        /\ tmp_files' = tmp_files \cup TempPaths(p, cli_ncalls + 1)
    /\ cli_ncalls' = cli_ncalls + 1
    /\ cli_pc' = "running"
    /\ UNCHANGED <<cli_result, cli_log>>
    /\ UNCHANGED nonCliVars

\* the subprocess ends (or times out) and analyze returns or raises
CliFinish ==
    /\ cli_pc = "running"
    /\ \E o \in CliOutcomes(cli_provider) :
        LET r == CliCall(cli_provider, o, cli_ncalls)
        IN  /\ cli_result' = r
            /\ tmp_files' = Finally(FilesAtExit(tmp_files, cli_paths, o),
                                    cli_paths, r.res)
            /\ cli_log' = Append(cli_log, [provider |-> cli_provider,
                                           cls |-> ResultClass(r.res)])
    /\ cli_pc' = "idle"
    /\ UNCHANGED <<cli_provider, cli_ncalls, cli_paths>>
    /\ UNCHANGED nonCliVars

(***************************************************************************)
(* The automated extraction loop (run_doc_extract.auto_extract).  One step *)
(* per call that can fail on its own: extraction with the text write and   *)
(* the chunking, each chunk's analyze_document, the merge with the         *)
(* manifest write, and the end of the run.                                 *)
(***************************************************************************)
MaxDocs == 3

\* the work lists: documents 1..n, main() never passes an empty list
WorkLists == {[k \in 1..n |-> k] : n \in 1..MaxDocs}

\* how extract_text, write_extracted_text and chunk_for_analysis can end
ExtractOutcomes ==
    {[t |-> "extract_raises"], [t |-> "empty"], [t |-> "write_text_raises"]}
    \cup {[t |-> "chunked", n |-> n] : n \in 1..MaxChunks}

\* how the merge and the manifest write can end
FinishOutcomes == {"merge_raises", "write_manifest_raises", "written"}

Event(doc, call, k) == [doc |-> doc, call |-> call, k |-> k]

Handled(doc, how) == [doc |-> doc, outcome |-> how]

\* the dict appended to failures by the except clause
Failure(doc, stage) == [source_file |-> doc, error |-> stage]

AfterFailureAbort(i, n) == n + 1

\* the except clause falls through to the next iteration of the for loop
AfterFailure(i, n) == i + 1

BatchInit ==
    /\ work = <<>>
    /\ b_pc = "idle"
    /\ b_i = 1
    /\ b_nchunks = 0
    /\ chunk_results = <<>>
    /\ succeeded = 0
    /\ failed = 0
    /\ skipped = 0
    /\ failures = <<>>
    /\ handled = <<>>
    /\ events = <<>>
    /\ texts = {}
    /\ manifests = {}
    /\ exit_code = None

\* auto_extract(run_id, work): the counters are zeroed, the loop begins
AutoExtract ==
    /\ b_pc = "idle"
    /\ work' \in WorkLists
    /\ b_pc' = "next"
    /\ UNCHANGED <<b_i, b_nchunks, chunk_results, succeeded, failed, skipped,
                   failures, handled, events, texts, manifests, exit_code>>
    /\ UNCHANGED nonBatchVars

AllAnalyzedAfterFirst(results, n) == Len(results) >= 1

\* the for loop over chunks has ended without an exception
AllAnalyzed(results, n) == Len(results) = n

OnExceptionUncounted(stage) ==
    /\ failures' = Append(failures, Failure(work[b_i], stage))
    /\ handled' = Append(handled, Handled(work[b_i], "failed"))
    /\ b_i' = AfterFailure(b_i, Len(work))
    /\ b_pc' = "next"
    /\ UNCHANGED <<work, succeeded, failed, skipped, manifests, exit_code>>

\* except Exception: count, record, go on with the loop
OnException(stage) ==
    /\ failed' = failed + 1
    /\ failures' = Append(failures, Failure(work[b_i], stage))
    /\ handled' = Append(handled, Handled(work[b_i], "failed"))
    /\ b_i' = AfterFailure(b_i, Len(work))
    /\ b_pc' = "next"
    /\ UNCHANGED <<work, succeeded, skipped, manifests, exit_code>>

\* steps 1 to 3 of an iteration: extract_text, the is_empty test,
\* write_extracted_text and chunk_for_analysis
ExtractDocument ==
    /\ b_pc = "next"
    /\ b_i <= Len(work)
    /\ \E o \in ExtractOutcomes :
        LET doc == work[b_i]
            e1 == <<Event(doc, "extract_text", 0)>>
            e2 == Append(e1, Event(doc, "write_extracted_text", 0))
        IN  CASE o.t = "extract_raises" ->
                   /\ events' = e1
                   /\ OnException("extract_text")
                   /\ UNCHANGED <<b_nchunks, chunk_results, texts>>
              [] o.t = "empty" ->
                   /\ events' = e1
                   /\ skipped' = skipped + 1
                   /\ handled' = Append(handled, Handled(doc, "skipped"))
                   /\ b_i' = b_i + 1
                   /\ UNCHANGED <<work, b_pc, b_nchunks, chunk_results, succeeded,
                                  failed, failures, texts, manifests, exit_code>>
              [] o.t = "write_text_raises" ->
                   /\ events' = e2
                   /\ OnException("write_extracted_text")
                   /\ UNCHANGED <<b_nchunks, chunk_results, texts>>
              [] OTHER ->
                   /\ events' = Append(e2, Event(doc, "chunk_for_analysis", 0))
                   /\ texts' = texts \cup {doc}
                   /\ b_nchunks' = o.n
                   /\ chunk_results' = <<>>
                   /\ b_pc' = "analyze"
                   /\ UNCHANGED <<work, b_i, succeeded, failed, skipped, failures,
                                  handled, manifests, exit_code>>
    /\ UNCHANGED nonBatchVars

\* step 4: analyze_document on the next chunk returns or raises
AnalyzeChunk ==
    /\ b_pc = "analyze"
    /\ Len(chunk_results) < b_nchunks
    /\ LET k == Len(chunk_results)
       IN  /\ events' = Append(events, Event(work[b_i], "analyze_document", k))
           /\ \/ /\ chunk_results' = Append(chunk_results, k)
                 /\ UNCHANGED <<work, b_pc, b_i, succeeded, failed, skipped,
                                failures, handled, manifests, exit_code>>
              \/ /\ OnException("analyze_document")
                 /\ UNCHANGED chunk_results
    /\ UNCHANGED <<b_nchunks, texts>>
    /\ UNCHANGED nonBatchVars

\* steps 5 and 6: merge when there are several chunks, write the manifest
FinishDocument ==
    /\ b_pc = "analyze"
    /\ AllAnalyzed(chunk_results, b_nchunks)
    /\ \E o \in FinishOutcomes :
        LET doc == work[b_i]
            merging == Len(chunk_results) > 1
            e1 == IF merging
                  THEN Append(events, Event(doc, "merge_chunk_analyses", 0))
                  ELSE events
        IN  /\ o = "merge_raises" => merging
            /\ CASE o = "merge_raises" ->
                      /\ events' = e1
                      /\ OnException("merge_chunk_analyses")
                 [] o = "write_manifest_raises" ->
                      /\ events' = Append(e1, Event(doc, "write_manifest", 0))
                      /\ OnException("write_manifest")
                 [] OTHER ->
                      /\ events' = Append(e1, Event(doc, "write_manifest", 0))
                      /\ manifests' = manifests \cup {doc}
                      /\ succeeded' = succeeded + 1
                      /\ handled' = Append(handled, Handled(doc, "succeeded"))
                      /\ b_i' = b_i + 1
                      /\ b_pc' = "next"
                      /\ UNCHANGED <<work, failed, skipped, failures, exit_code>>
    /\ UNCHANGED <<b_nchunks, chunk_results, texts>>
    /\ UNCHANGED nonBatchVars

\* the for loop is exhausted: write_run_meta, then sys.exit(1) if failed > 0
EndRun ==
    /\ b_pc = "next"
    /\ b_i > Len(work)
    /\ b_pc' = "exited"
    /\ exit_code' = IF failed > 0 THEN 1 ELSE 0
    /\ UNCHANGED <<work, b_i, b_nchunks, chunk_results, succeeded, failed,
                   skipped, failures, handled, events, texts, manifests>>
    /\ UNCHANGED nonBatchVars

(***************************************************************************)
(* The strict-mode schema transform (_make_openai_strict).  A schema node  *)
(* is a record: type, the properties dict when the key is present, the     *)
(* items schema when the key is present, the $defs dict, and the presence  *)
(* of the default, additionalProperties and required keys.                 *)
(***************************************************************************)
MaxDepth == 2

\* a node with none of properties, items, $defs
Leaf(t, d) ==
    [type |-> t, hasProps |-> FALSE, props |-> <<>>, hasItems |-> FALSE,
     items |-> None, defs |-> <<>>, hasDefault |-> d,
     additionalProperties |-> "absent", hasRequired |-> FALSE,
     required |-> <<>>]

\* {"type": "object", "properties": ps}
ObjectNode(ps) == [Leaf("object", FALSE) EXCEPT !.hasProps = TRUE, !.props = ps]

\* {"type": "array", "items": x}
ArrayNode(x) == [Leaf("array", FALSE) EXCEPT !.hasItems = TRUE, !.items = x]

\* an object with no property of its own and one definition under $defs
DefsNode(x) == [ObjectNode(<<>>) EXCEPT !.defs = [k \in {"D"} |-> x]]

\* leaves: a string, a string with a default, a free-form object (dict)
BaseSchemas ==
    {Leaf("string", FALSE), Leaf("string", TRUE), Leaf("object", FALSE)}

\* one more level of nesting over the schemas of S
NestOnce(S) ==
    LET built == {ObjectNode([k \in {"a"} |-> x]) : x \in S}
                 \cup {ObjectNode([k \in {"a", "b"} |->
                           IF k = "a" THEN x ELSE Leaf("string", TRUE)]) : x \in S}
                 \cup {ArrayNode(x) : x \in S}
                 \cup {DefsNode(x) : x \in S}
    IN  BaseSchemas \cup built \cup {[n EXCEPT !.hasDefault = TRUE] : n \in built}

RECURSIVE SchemasOfDepth(_)
SchemasOfDepth(d) == IF d = 0 THEN BaseSchemas ELSE NestOnce(SchemasOfDepth(d - 1))

Schemas == SchemasOfDepth(MaxDepth)

\* list(d.keys()): the keys in insertion order
KeyOrder == <<"a", "b", "D">>
InDomainOf(f) == LET Test(k) == k \in DOMAIN f IN SelectSeq(KeyOrder, Test)
keys(f) == InDomainOf(f)

\* prop.pop("default", None)
pop_default(prop) == [prop EXCEPT !.hasDefault = FALSE]

RECURSIVE _make_openai_strict(_)
_make_openai_strict(schema) ==
    LET s1 == IF schema.type = "object" /\ schema.hasProps
              THEN [schema EXCEPT
                       !.additionalProperties = "false",
                       !.hasRequired = TRUE,
                       !.required = keys(schema.props),
                       !.props = [k \in DOMAIN schema.props |->
                                     _make_openai_strict(pop_default(schema.props[k]))]]
              ELSE schema
        s2 == IF s1.hasItems
              THEN [s1 EXCEPT !.items = _make_openai_strict(s1.items)]
              ELSE s1
    IN  [s2 EXCEPT !.defs = [k \in DOMAIN s2.defs |-> _make_openai_strict(s2.defs[k])]]

StrictInit ==
    /\ schema_in = None
    /\ schema_out = None

\* _doc_analysis_schema: the transform is applied to a schema
MakeStrict ==
    /\ schema_in = None
    /\ \E s \in Schemas :
        /\ schema_in' = s
        /\ schema_out' = _make_openai_strict(s)
    /\ UNCHANGED nonStrictVars

(***************************************************************************)
(* The inference metadata a successful analyze call returns.               *)
(***************************************************************************)
MaxTextLen == 9

\* the fields models.DocumentInferenceMetadata declares
InferenceFields == DOMAIN DefaultInference

\* DocumentInferenceMetadata(**kwargs): a pydantic BaseModel without
\* model_config ignores a keyword that is no declared field
DocumentInferenceMetadata(kwargs) ==
    [f \in InferenceFields |->
        IF f \in DOMAIN kwargs THEN kwargs[f] ELSE DefaultInference[f]]

\* what the provider's envelope says of usage: absent, or the two counts
NoUsage == [reported |-> FALSE, input_tokens |-> 0, output_tokens |-> 0]
Usages ==
    {NoUsage}
    \cup {[reported |-> TRUE, input_tokens |-> i, output_tokens |-> o] :
            i \in 0..MaxTokens, o \in 0..MaxTokens}

\* config.DOC_CLI_MODEL, config.CODEX_MODEL or "codex-default", config.OLLAMA_MODEL
ModelOf(p) ==
    CASE p = "claude-cli" -> "sonnet"
      [] p = "codex"      -> "codex-default"
      [] OTHER            -> "ollama-model"

\* usage.get(key, 0)
usage_get(usage, key) == IF usage.reported THEN usage[key] ELSE 0

\* the constructor call at the end of each adapter's analyze
AdapterInference(p, text_len, usage) ==
    DocumentInferenceMetadata(
        [method                 |-> "auto",
         provider               |-> p,
         model                  |-> ModelOf(p),
         prompt_version         |-> "document_analysis_v1",
         timestamp              |-> "t-chunk",
         input_tokens           |-> usage_get(usage, "input_tokens"),
         output_tokens          |-> usage_get(usage, "output_tokens"),
         estimated_input_tokens |-> text_len \div 4])

InfInit ==
    /\ inf_text_len = 0
    /\ inf_usage = NoUsage
    /\ inference = None

\* a successful analyze of one of the three adapters
AnalyzeReturns ==
    \E p \in _PROVIDERS, n \in 0..MaxTextLen, u \in Usages :
        /\ inf_text_len' = n
        /\ inf_usage' = u
        /\ inference' = AdapterInference(p, n, u)
        /\ UNCHANGED nonInfVars

(***************************************************************************)
(* Usage extraction from the JSONL stdout of the Codex CLI                 *)
(* (CodexCliProvider.analyze, the loop over result.stdout).                *)
(***************************************************************************)
MaxLines == 2

\* a usage dict: each of the two counts is absent or a number
TokenOrAbsent == {[present |-> FALSE, n |-> 0]}
                 \cup {[present |-> TRUE, n |-> n] : n \in 0..MaxTokens}
UsageDicts == {[input_tokens |-> i, output_tokens |-> o] :
                  i \in TokenOrAbsent, o \in TokenOrAbsent}

\* one line of stdout:
\*   text    - no JSON at all (json.loads raises JSONDecodeError)
\*   scalar  - JSON, but no object (a number, a string, null, a list)
\*   event   - a JSON object; type is its "type", usage its "usage" entry:
\*             absent, null, or a dict
TextLine == [json |-> "text"]
ScalarLine == [json |-> "scalar"]
EventLine(type, usage) == [json |-> "event", type |-> type, usage |-> usage]
AbsentUsage == [entry |-> "absent"]
NullUsage == [entry |-> "null"]
DictUsage(d) == [entry |-> "dict", dict |-> d]

Lines ==
    {TextLine, ScalarLine, EventLine("item.completed", AbsentUsage),
     EventLine("turn.completed", AbsentUsage),
     EventLine("turn.completed", NullUsage)}
    \cup {EventLine("turn.completed", DictUsage(d)) : d \in UsageDicts}

RECURSIVE SeqsUpTo(_, _)
SeqsUpTo(S, n) ==
    IF n = 0 THEN {<<>>}
    ELSE LET shorter == SeqsUpTo(S, n - 1)
         IN  shorter \cup {Append(q, x) : q \in shorter, x \in S}

\* result.stdout.strip().splitlines()
Stdouts == SeqsUpTo(Lines, MaxLines)

Counts(i, o) == [kind |-> "ok", input_tokens |-> i, output_tokens |-> o]
UsageRaises(cls) == [kind |-> "raise", cls |-> cls]

\* d.get(key, 0) on a usage dict
get_count(d, key) == IF d[key].present THEN d[key].n ELSE 0

\* the body of the for loop on one line, from the counts so far
ScanLine(acc, line) ==
    CASE acc.kind = "raise"   -> acc
      [] line.json = "text"   -> acc
      [] line.json = "scalar" -> UsageRaises("AttributeError")
      [] line.type # "turn.completed" -> acc
      [] line.usage.entry = "absent"  -> Counts(0, 0)
      [] line.usage.entry = "null"    -> UsageRaises("AttributeError")
      [] OTHER -> Counts(get_count(line.usage.dict, "input_tokens"),
                         get_count(line.usage.dict, "output_tokens"))

RECURSIVE ScanFrom(_, _, _)
ScanFrom(acc, lines, i) ==
    IF i > Len(lines) THEN acc ELSE ScanFrom(ScanLine(acc, lines[i]), lines, i + 1)

\* input_tokens = 0; output_tokens = 0; for line in ...: ...
extract_usage(lines) == ScanFrom(Counts(0, 0), lines, 1)

UsageInit ==
    /\ codex_stdout = <<>>
    /\ usage_result = None

\* the Codex CLI exited 0, its output file was valid: stdout is scanned
ExtractUsage ==
    /\ usage_result = None
    /\ \E out \in Stdouts :
        /\ codex_stdout' = out
        /\ usage_result' = extract_usage(out)
        /\ UNCHANGED nonUsageVars

(***************************************************************************)
(* The atomic manifest write (doc_manifest.write_manifest and              *)
(* manifest.write_manifest): mkstemp, json.dump, rename, with the unlink   *)
(* of the except clause.                                                   *)
(***************************************************************************)
MaxWrites == 3

\* a sha256 as its first 12 characters and the rest; two of the three
\* documents share their first 12 characters
Shas == {[head |-> "aaaaaaaaaaaa", rest |-> 1], [head |-> "aaaaaaaaaaaa", rest |-> 2],
         [head |-> "bbbbbbbbbbbb", rest |-> 1]}

\* f"{source_sha256[:12]}.json"
filename(sha) == sha.head \o ".json"

\* the manifest dict of call n for document sha
ManifestOf(sha, n) == [source_sha256 |-> sha, written_by |-> n]

File(name, content) == [name |-> name, content |-> content]

\* the name tempfile.mkstemp(dir=out_dir, suffix=".tmp") gives call n
TmpName(n) == [suffix |-> ".tmp", n |-> n]

\* Path(tmp).rename(out_path): the target is replaced in one step
rename(dir, name, content) ==
    {f \in dir : f.name # name} \cup {File(name, content)}

except_keep(tmps, t) == tmps

\* except BaseException: Path(tmp).unlink(missing_ok=True)
except_unlink(tmps, t) == tmps \ {t}

WmReturns(path) == [kind |-> "return", path |-> path]
WmRaises(stage) == [kind |-> "raise", stage |-> stage]

ManifestInit ==
    /\ m_pc = "idle"
    /\ m_sha = None
    /\ m_ncalls = 0
    /\ m_dir = {}
    /\ m_tmp = {}
    /\ m_before = {}
    /\ m_result = None

\* write_manifest up to mkstemp: the temp file exists, or mkstemp raised
WmMkstemp ==
    /\ m_pc = "idle"
    /\ m_ncalls < MaxWrites
    /\ \E sha \in Shas : m_sha' = sha
    /\ m_ncalls' = m_ncalls + 1
    /\ m_before' = m_dir
    /\ \/ /\ m_tmp' = m_tmp \cup {TmpName(m_ncalls + 1)}
          /\ m_pc' = "dump"
          /\ UNCHANGED m_result
       \/ /\ m_result' = WmRaises("mkstemp")
          /\ UNCHANGED <<m_tmp, m_pc>>
    /\ UNCHANGED m_dir
    /\ UNCHANGED nonManifestVars

\* json.dump into the temp file succeeds or raises
WmDump ==
    /\ m_pc = "dump"
    /\ \/ /\ m_pc' = "rename"
          /\ UNCHANGED <<m_tmp, m_result>>
       \/ /\ m_tmp' = except_unlink(m_tmp, TmpName(m_ncalls))
          /\ m_result' = WmRaises("dump")
          /\ m_pc' = "idle"
    /\ UNCHANGED <<m_sha, m_ncalls, m_dir, m_before>>
    /\ UNCHANGED nonManifestVars

\* the rename succeeds (the catalog update that follows is non-fatal, so
\* out_path is returned) or raises
WmRename ==
    /\ m_pc = "rename"
    /\ \/ /\ m_dir' = rename(m_dir, filename(m_sha), ManifestOf(m_sha, m_ncalls))
          /\ m_tmp' = m_tmp \ {TmpName(m_ncalls)}
          /\ m_result' = WmReturns(filename(m_sha))
       \/ /\ m_tmp' = except_unlink(m_tmp, TmpName(m_ncalls))
          /\ m_result' = WmRaises("rename")
          /\ UNCHANGED m_dir
    /\ m_pc' = "idle"
    /\ UNCHANGED <<m_sha, m_ncalls, m_before>>
    /\ UNCHANGED nonManifestVars

(***************************************************************************)
(* The chunk plan (doc_extract_text.chunk_for_analysis).  A page's text is *)
(* modelled by its length; the text of a chunk by the pages it is made of. *)
(***************************************************************************)
MaxPages == 6

SMALL_DOC_THRESHOLD == 100000
DEFAULT_CHUNK_PAGES == 50

\* page counts: the small ones, and some around the default chunk size
PageCounts ==
    (0..MaxPages)
    \cup {DEFAULT_CHUNK_PAGES, DEFAULT_CHUNK_PAGES + 1, 2 * DEFAULT_CHUNK_PAGES + 1}

\* len(text) of a page after strip()
PageLens == {0, 10, 2000, 60000}

ChunkPages == {1, 2, 3, DEFAULT_CHUNK_PAGES}

\* ExtractionResult as extract_text builds it: total_pages = len(page_texts)
ExtractionResults ==
    {[total_pages |-> n, page_texts |-> [i \in 1..n |-> l]] :
        n \in PageCounts, l \in PageLens}

\* len(str(i))
Digits(i) == IF i < 10 THEN 1 ELSE IF i < 100 THEN 2 ELSE 3

\* len(f"--- Page {i} ---\n{text}")
PartLen(i, textlen) == 9 + Digits(i) + 5 + textlen

\* the summed length of parts lo..hi, by halves
RECURSIVE PartsLen(_, _, _)
PartsLen(page_texts, lo, hi) ==
    IF lo > hi THEN 0
    ELSE IF lo = hi THEN PartLen(lo, page_texts[lo])
    ELSE LET mid == (lo + hi) \div 2
         IN  PartsLen(page_texts, lo, mid) + PartsLen(page_texts, mid + 1, hi)

\* len("\n\n".join(parts)): the parts and a separator between neighbours
JoinedLen(page_texts, n) ==
    PartsLen(page_texts, 1, n) + (IF n > 1 THEN 2 * (n - 1) ELSE 0)

\* len(result.full_text)
full_text_len(result) == JoinedLen(result.page_texts, Len(result.page_texts))

\* the text of a chunk: page_texts[start:end] (a slice stops at the end of
\* the list) with the number of its first page
PageSlice(result, start, end) ==
    [first |-> start + 1,
     pages |-> SubSeq(result.page_texts, start + 1,
                      Min(end, Len(result.page_texts)))]

TextChunk(text, page_start, page_end, chunk_index, total_chunks) ==
    [text |-> text, page_start |-> page_start, page_end |-> page_end,
     chunk_index |-> chunk_index, total_chunks |-> total_chunks]

\* (total_pages + chunk_pages - 1) // chunk_pages
total_chunks_of(total_pages, chunk_pages) ==
    (total_pages + chunk_pages - 1) \div chunk_pages

end_unclamped(start, chunk_pages, total_pages) == start + chunk_pages

\* end = min(start + chunk_pages, result.total_pages)
end_of(start, chunk_pages, total_pages) == Min(start + chunk_pages, total_pages)

chunk_for_analysis(result, chunk_pages) ==
    IF full_text_len(result) < SMALL_DOC_THRESHOLD
    THEN <<TextChunk(PageSlice(result, 0, Len(result.page_texts)),
                     1, result.total_pages, 0, 1)>>
    ELSE LET n == total_chunks_of(result.total_pages, chunk_pages)
         IN  [k \in 1..n |->
                LET i == k - 1
                    start == i * chunk_pages
                    end == end_of(start, chunk_pages, result.total_pages)
                IN  TextChunk(PageSlice(result, start, end), start + 1, end, i, n)]

ChunkInit ==
    /\ c_pc = "idle"
    /\ c_result = None
    /\ c_chunk_pages = DEFAULT_CHUNK_PAGES
    /\ chunks = <<>>

\* chunk_for_analysis(result, chunk_pages) is called
ChunkForAnalysis ==
    /\ c_pc = "idle"
    /\ \E r \in ExtractionResults, cp \in ChunkPages :
        /\ c_result' = r
        /\ c_chunk_pages' = cp
        /\ chunks' = chunk_for_analysis(r, cp)
    /\ c_pc' = "done"
    /\ UNCHANGED nonChunkVars

(***************************************************************************)
(* Resuming a run: build_work_list, get_processed_hashes and the loop of   *)
(* auto_extract over the work list.                                        *)
(***************************************************************************)
MaxPdfs == 2
MaxRuns == 3

\* st_size of a scanned file
FileSizes == {1, 2}

\* one entry of scan_pdfs: the path, its hash and its size
Pdf(path, sha, size) == [rel_path |-> path, sha256 |-> sha, file_size_bytes |-> size]

\* scan_pdfs: one entry per path in sorted path order; two paths may hold
\* the same bytes
Scans ==
    UNION {{[k \in 1..n |-> Pdf(k, f[k][1], f[k][2])] : f \in [1..n -> Shas \X FileSizes]}
           : n \in 1..MaxPdfs}

Elems(s) == {s[k] : k \in 1..Len(s)}

\* sorted(d.glob("*.json")), each file loaded
list_manifests(dir) == {f \in dir : TRUE}

\* the source_sha256 of every manifest of the run
get_processed_hashes(dir) == {f.content.source_sha256 : f \in list_manifests(dir)}

HasSize(k, d) == d.file_size_bytes = k

\* list.sort(key=file_size_bytes): stable, smallest first
RECURSIVE sort_from(_, _)
sort_from(s, k) ==
    IF \A j \in FileSizes : j < k THEN <<>>
    ELSE SelectSeq(s, LAMBDA d : HasSize(k, d)) \o sort_from(s, k + 1)

sort_by_size(s) == sort_from(s, 1)

NotProcessed(processed, p) == p.sha256 \notin processed

\* remaining = [p for p in all_pdfs if p["sha256"] not in processed], sorted
build_work_list(all_pdfs, dir) ==
    sort_by_size(SelectSeq(all_pdfs, LAMBDA p : NotProcessed(get_processed_hashes(dir), p)))

\* how one iteration of the loop of auto_extract can end
DocOutcomes == {"written", "failed", "skipped"}

ResumeInit ==
    /\ rs_pc = "none"
    /\ rs_runs = 0
    /\ rs_docs = <<>>
    /\ rs_dir = {}
    /\ rs_work = <<>>
    /\ rs_i = 1
    /\ rs_written = {}
    /\ rs_before = {}

\* main(): the work list is built, and auto_extract runs unless it is empty
StartRun(docs, dir) ==
    /\ rs_runs' = rs_runs + 1
    /\ rs_docs' = docs
    /\ rs_work' = build_work_list(docs, dir)
    /\ rs_i' = 1
    /\ rs_before' = rs_written
    /\ rs_pc' = IF build_work_list(docs, dir) = <<>> THEN "idle" ELSE "running"
    /\ UNCHANGED <<rs_dir, rs_written>>

\* --auto: a new run id with an empty manifests directory
NewRun ==
    /\ rs_pc = "none"
    /\ \E docs \in Scans : StartRun(docs, rs_dir)
    /\ UNCHANGED nonResumeVars

\* --auto --resume RUN: the same directory, the same source files
ResumeRun ==
    /\ rs_pc = "idle"
    /\ rs_runs < MaxRuns
    /\ StartRun(rs_docs, rs_dir)
    /\ UNCHANGED nonResumeVars

\* one iteration of the loop: the manifest is written as its last step
ProcessDocument ==
    /\ rs_pc = "running"
    /\ rs_i <= Len(rs_work)
    /\ \E o \in DocOutcomes :
         LET sha == rs_work[rs_i].sha256 IN
         IF o = "written"
         THEN /\ rs_dir' = rename(rs_dir, filename(sha), ManifestOf(sha, rs_runs))
              /\ rs_written' = rs_written \cup {sha}
         ELSE UNCHANGED <<rs_dir, rs_written>>
    /\ rs_i' = rs_i + 1
    /\ UNCHANGED <<rs_pc, rs_runs, rs_docs, rs_work, rs_before>>
    /\ UNCHANGED nonResumeVars

\* the loop is over, the summary is written and the process exits
FinishRun ==
    /\ rs_pc = "running"
    /\ rs_i > Len(rs_work)
    /\ rs_pc' = "idle"
    /\ UNCHANGED <<rs_runs, rs_docs, rs_dir, rs_work, rs_i, rs_written, rs_before>>
    /\ UNCHANGED nonResumeVars

Init == RetryInit /\ MergeInit /\ CliInit /\ BatchInit /\ StrictInit /\ InfInit /\ UsageInit /\ ManifestInit /\ ChunkInit /\ ResumeInit

RetryNext ==
    \/ CallFn
    \/ CallAnalyzeDocument
    \/ AttemptReturns
    \/ AttemptPropagates
    \/ AttemptRetries
    \/ AttemptExhausts

MergeNext ==
    \/ AppendChunk
    \/ MergeChunkAnalyses

SpecRetry == Init /\ [][RetryNext]_vars

SpecMerge == Init /\ [][MergeNext]_vars

CliNext ==
    \/ CliStart
    \/ CliFinish

SpecCli == Init /\ [][CliNext]_vars

BatchNext ==
    \/ AutoExtract
    \/ ExtractDocument
    \/ AnalyzeChunk
    \/ FinishDocument
    \/ EndRun

SpecBatch == Init /\ [][BatchNext]_vars

StrictNext == MakeStrict

SpecStrict == Init /\ [][StrictNext]_vars

InfNext == AnalyzeReturns

SpecInf == Init /\ [][InfNext]_vars

UsageNext == ExtractUsage

SpecUsage == Init /\ [][UsageNext]_vars

ManifestNext ==
    \/ WmMkstemp
    \/ WmDump
    \/ WmRename

SpecManifest == Init /\ [][ManifestNext]_vars

ChunkNext == ChunkForAnalysis

SpecChunk == Init /\ [][ChunkNext]_vars

ResumeNext ==
    \/ NewRun
    \/ ResumeRun
    \/ ProcessDocument
    \/ FinishRun

SpecResume == Init /\ [][ResumeNext]_vars

(***************************************************************************)
(* Properties of the retry wrapper.                                        *)
(***************************************************************************)
Terminal == pc \in {"returned", "raised"}

IsRaise(r) == r.kind = "raise"

\* the failures the decorator's contract names as transient
TransientFailure(r) ==
    /\ IsRaise(r)
    /\ \/ r.exc.cls \in {"httpx.ConnectError", "httpx.ReadTimeout",
                         "anthropic.RateLimitError",
                         "anthropic.APIConnectionError"}
       \/ /\ r.exc.cls = "httpx.HTTPStatusError"
          /\ r.exc.status \in {429, 500, 502, 503}

\* configuration errors, parse failures, client errors, anything else
PermanentFailure(r) ==
    /\ IsRaise(r)
    /\ \/ r.exc.cls \in {"ValueError", "KeyError", "RuntimeError",
                         "json.JSONDecodeError", "pydantic.ValidationError"}
       \/ /\ r.exc.cls = "httpx.HTTPStatusError"
          /\ r.exc.status \in {400, 401, 403, 404}

\* C1: when every invocation of the wrapped function raises a retryable
\* error, the wrapper ends after exactly max_attempts invocations and raises
\* the very exception the last invocation raised.
C1_RetryExhaustion ==
    (Terminal /\ \A i \in 1..Len(trace) : TransientFailure(trace[i])) =>
        /\ pc = "raised"
        /\ calls = max_attempts
        /\ Len(trace) = max_attempts
        /\ outcome = trace[max_attempts]
        /\ outcome.exc.id = max_attempts

C1_Witness ==
    /\ pc = "raised"
    /\ max_attempts = 3
    /\ calls = 3
    /\ \A i \in 1..Len(trace) : TransientFailure(trace[i])
    /\ trace[1].exc.cls # trace[3].exc.cls
    /\ outcome = trace[3]

\* C2: an invocation that raises an exception outside the retryable set is
\* the last one: the wrapper raises that exception, nothing is invoked and
\* nothing is slept after it; if it is the first invocation there is one call.
C2_NonRetryablePropagates ==
    \A i \in 1..Len(trace) :
        PermanentFailure(trace[i]) =>
            /\ i = Len(trace)
            /\ calls = i
            /\ pc = "raised"
            /\ outcome = trace[i]
            /\ Len(sleeps) = i - 1

C2_Witness ==
    /\ pc = "raised"
    /\ calls = 2
    /\ TransientFailure(trace[1])
    /\ PermanentFailure(trace[2])
    /\ trace[2].exc.status = 403
    /\ Len(sleeps) = 1

C4_TimeoutRetried ==
    \A i \in 1..Len(trace) :
        (/\ target \in _PROVIDERS
         /\ IsRaise(trace[i])
         /\ trace[i].exc.cls \in {"subprocess.TimeoutExpired", "TimeoutError"}
         /\ i < max_attempts) =>
            /\ ~(pc = "raised" /\ outcome = trace[i])
            /\ Len(sleeps) >= i

\* C5: a failure of the HTTP adapter that carries an HTTP status is retried
\* exactly when the status is 429, 500, 502 or 503; with 400, 401 or 403 it
\* propagates on first occurrence.
C5_HttpStatusClassified ==
    \A i \in 1..Len(trace) :
        (/\ target = "ollama"
         /\ IsRaise(trace[i])
         /\ trace[i].exc.status # 0
         /\ i < max_attempts) =>
            ((pc = "raised" /\ outcome = trace[i] /\ Len(sleeps) = i - 1)
                <=> trace[i].exc.status \notin {429, 500, 502, 503})

RECURSIVE TwoTo(_)
TwoTo(n) == IF n = 0 THEN 1 ELSE 2 * TwoTo(n - 1)

\* C6: the n-th sleep lasts min(base_delay * 2^(n-1), max_delay) and never
\* more than max_delay; one sleep follows each retryable failure but the
\* max_attempts-th; with the defaults the sleeps are 2 then 4 seconds.
C6_BackoffSchedule ==
    /\ \A n \in 1..Len(sleeps) :
          /\ n < max_attempts
          /\ TransientFailure(trace[n])
          /\ LET d == base_delay * TwoTo(n - 1)
             IN  sleeps[n] = IF d < max_delay THEN d ELSE max_delay
          /\ sleeps[n] <= max_delay
    /\ \A n \in 1..Len(trace) :
          (TransientFailure(trace[n]) /\ n < max_attempts) => Len(sleeps) >= n
    /\ (/\ max_attempts = DefaultMaxAttempts
        /\ base_delay = DefaultBaseDelay
        /\ max_delay = DefaultMaxDelay) =>
            sleeps \in {<<>>, <<2>>, <<2, 4>>}

C6_Witness ==
    /\ pc = "raised"
    /\ target = "fn"
    /\ max_attempts = 3
    /\ base_delay = 2
    /\ max_delay = 30
    /\ calls = 3
    /\ sleeps = <<2, 4>>

(***************************************************************************)
(* Properties of merge_chunk_analyses.                                     *)
(***************************************************************************)
MergedMany == merged # None /\ Len(analyses) >= 2

MaxConfidence ==
    CHOOSE c \in {analyses[i].a.date_confidence : i \in 1..Len(analyses)} :
        \A i \in 1..Len(analyses) : analyses[i].a.date_confidence <= c

FirstAttaining ==
    CHOOSE k \in 1..Len(analyses) :
        /\ analyses[k].a.date_confidence = MaxConfidence
        /\ \A j \in 1..(k - 1) : analyses[j].a.date_confidence # MaxConfidence

\* C7: the merged date_confidence is the maximum over the chunks and the
\* merged date is that of the lowest-index chunk attaining the maximum.
C7_MergeDateSelection ==
    MergedMany =>
        /\ merged.a.date_confidence = MaxConfidence
        /\ merged.a.date = analyses[FirstAttaining].a.date

C7_Witness ==
    /\ MergedMany
    /\ Len(analyses) = 3
    /\ analyses[1].a.date_confidence = 5
    /\ analyses[2].a.date_confidence = 9
    /\ analyses[3].a.date_confidence = 9
    /\ analyses[2].a.date # analyses[3].a.date
    /\ merged.a.date = analyses[2].a.date

ListFields == {"key_people", "key_dates", "tags"}

\* the chunks' lists of one field, one after the other in chunk order
RECURSIVE Joined(_, _)
Joined(field, n) ==
    IF n = 0 THEN <<>> ELSE Joined(field, n - 1) \o analyses[n].a[field]

FirstAt(s, x) == CHOOSE i \in 1..Len(s) : s[i] = x /\ \A j \in 1..(i - 1) : s[j] # x

\* C8: each merged list has no duplicate, holds exactly the strings of the
\* chunks' lists, and orders them by first occurrence in the concatenation
\* of the chunks' lists.
C8_MergeOrderedUnion ==
    MergedMany =>
        \A f \in ListFields :
            LET out == merged.a[f]
                all == Joined(f, Len(analyses))
            IN  /\ \A i, j \in 1..Len(out) : i # j => out[i] # out[j]
                /\ {out[i] : i \in 1..Len(out)} = {all[i] : i \in 1..Len(all)}
                /\ \A i, j \in 1..Len(out) :
                       i < j => FirstAt(all, out[i]) < FirstAt(all, out[j])

C8_Witness ==
    /\ MergedMany
    /\ Len(analyses) = 3
    /\ analyses[1].a.tags = <<"b", "b">>
    /\ analyses[2].a.tags = <<"a", "b">>
    /\ analyses[3].a.key_people = <<"q", "p">>
    /\ merged.a.tags = <<"b", "a">>
    /\ merged.a.key_people = <<"q", "p">>
    /\ merged.a.key_dates = <<>>

Flags == {"has_ssn", "has_financial", "has_medical"}

\* C9: each merged sensitivity flag is true exactly when that same flag is
\* true in at least one chunk.
C9_MergeSensitivityOr ==
    MergedMany =>
        \A f \in Flags :
            merged.a.sensitivity[f] <=>
                (\E i \in 1..Len(analyses) : analyses[i].a.sensitivity[f])

C9_Witness ==
    /\ MergedMany
    /\ analyses[1].a.sensitivity =
           [has_ssn |-> TRUE, has_financial |-> FALSE, has_medical |-> FALSE]
    /\ analyses[2].a.sensitivity =
           [has_ssn |-> FALSE, has_financial |-> FALSE, has_medical |-> TRUE]
    /\ merged.a.sensitivity =
           [has_ssn |-> TRUE, has_financial |-> FALSE, has_medical |-> TRUE]

RECURSIVE TotalUpTo(_, _)
TotalUpTo(field, n) ==
    IF n = 0 THEN 0 ELSE TotalUpTo(field, n - 1) + analyses[n].inf[field]

\* C10: the merged input_tokens and output_tokens are the sums over all
\* chunks and the merged chunk_count is the number of chunks.
C10_MergeTokenAccounting ==
    MergedMany =>
        /\ merged.inf.input_tokens = TotalUpTo("input_tokens", Len(analyses))
        /\ merged.inf.output_tokens = TotalUpTo("output_tokens", Len(analyses))
        /\ merged.inf.chunk_count = Len(analyses)

C10_Witness ==
    /\ MergedMany
    /\ Len(analyses) = 3
    /\ analyses[1].inf.input_tokens = 1
    /\ analyses[1].inf.output_tokens = 1
    /\ merged.inf.input_tokens = 3
    /\ merged.inf.output_tokens = 1
    /\ merged.inf.chunk_count = 3

\* C11: merging exactly one chunk result returns that chunk's pair, the
\* same two objects, equal in every field (timestamp and chunk_count too).
C11_MergeIdentity ==
    (merged # None /\ Len(analyses) = 1) =>
        /\ merged = analyses[1]
        /\ merged.inf.timestamp = analyses[1].inf.timestamp
        /\ merged.inf.chunk_count = analyses[1].inf.chunk_count
        /\ merged_obj = objs[1]

C11_Witness ==
    /\ merged # None
    /\ Len(analyses) = 1
    /\ analyses[1].inf.chunk_count = 2
    /\ analyses[1].inf.timestamp = "t-chunk"
    /\ merged = analyses[1]

HeaderFields == {"document_type", "title", "language", "quality"}
ProvenanceFields == {"method", "provider", "model", "prompt_version"}

\* C18: for two or more chunks the merged document_type, title, language,
\* quality, method, provider, model and prompt_version are the first chunk's.
C18_MergeFirstChunkFields ==
    MergedMany =>
        /\ \A f \in HeaderFields : merged.a[f] = analyses[1].a[f]
        /\ \A f \in ProvenanceFields : merged.inf[f] = analyses[1].inf[f]

C18_Witness ==
    /\ MergedMany
    /\ Len(analyses) = 3
    /\ analyses[1].a.document_type = "letter"
    /\ analyses[2].a.document_type = "deed"
    /\ analyses[3].inf.provider = "codex"
    /\ merged.a.title = "T1"
    /\ merged.inf.provider = "claude-cli"

\* the non-empty values of one summary field among the first n chunks,
\* joined with sep
RECURSIVE JoinedSummaries(_, _, _)
JoinedSummaries(field, sep, n) ==
    IF n = 0 THEN ""
    ELSE LET before == JoinedSummaries(field, sep, n - 1)
             here == analyses[n].a[field]
         IN  IF here = "" THEN before
             ELSE IF before = "" THEN here
             ELSE before \o sep \o here

\* C19: merged summary_en is the non-empty summary_en values in chunk order
\* joined by one space; merged summary_zh is the non-empty summary_zh values
\* in chunk order joined by nothing.
C19_MergeSummaries ==
    MergedMany =>
        /\ merged.a.summary_en = JoinedSummaries("summary_en", " ", Len(analyses))
        /\ merged.a.summary_zh = JoinedSummaries("summary_zh", "", Len(analyses))

C19_Witness ==
    /\ MergedMany
    /\ Len(analyses) = 3
    /\ analyses[1].a.summary_en = "A"
    /\ analyses[2].a.summary_en = ""
    /\ analyses[3].a.summary_en = "B"
    /\ merged.a.summary_en = "A B"
    /\ merged.a.summary_zh = "xy"

InputObjects ==
    {objs[i].a : i \in 1..Len(objs)} \cup {objs[i].inf : i \in 1..Len(objs)}

C14_HttpFailureClassified ==
    \A i \in 1..Len(trace) :
        (/\ adapter = "ollama"
         /\ IsRaise(trace[i])
         /\ trace[i].exc.status \in Statuses) =>
            trace[i].exc.cls \in {"CliRateLimitError", "RuntimeError"}

\* the name looked up is none of the three keys
UnknownName ==
    /\ target # "fn"
    /\ pc # "idle"
    /\ (IF target = NoName THEN doc_provider ELSE target)
           \notin {"claude-cli", "codex", "ollama"}

\* C15: with a provider name that is none of the three keys, analyze_document
\* raises from its first attempt the ValueError that lists the three keys:
\* one invocation, no sleep, no adapter and no transport.
C15_UnknownProvider ==
    UnknownName =>
        /\ calls <= 1
        /\ sleeps = <<>>
        /\ transports = 0
        /\ adapter = NoAdapter
        /\ pc # "returned"
        /\ calls = 1 =>
              /\ pc = "raised"
              /\ outcome = trace[1]
              /\ outcome.exc.cls = "ValueError"
              /\ outcome.exc.id = 1
              /\ outcome.exc.choices = <<"claude-cli", "codex", "ollama">>

C15_Witness ==
    /\ target = "bogus"
    /\ doc_provider = "claude-cli"
    /\ pc = "raised"
    /\ calls = 1
    /\ outcome.exc.cls = "ValueError"
    /\ outcome.exc.name = "bogus"

\* C16: once analyze_document has invoked the provider, the adapter that ran
\* has the name that was asked for, and the configured default's name when
\* no name was given.
C16_RegistryLookup ==
    (target # "fn" /\ calls >= 1) =>
        /\ \A k \in {"claude-cli", "codex", "ollama"} :
              /\ target = k => adapter = k
              /\ (target = NoName /\ doc_provider = k) => adapter = k

C16_Witness ==
    /\ target = NoName
    /\ doc_provider = "ollama"
    /\ calls = 1
    /\ adapter = "ollama"
    /\ transports = 1

(***************************************************************************)
(* Properties of one call of a CLI adapter.                                *)
(***************************************************************************)
\* the temp files call n of adapter p was given
CreatedFor(p, n) ==
    IF p = "codex"
    THEN {[prefix |-> x, n |-> n] : x \in {"codex-schema-", "codex-out-"}}
    ELSE {}

ClaimedVocabulary ==
    { <<"r", "a", "t", "e", " ", "l", "i", "m", "i", "t">>,
      <<"4", "2", "9">>,
      <<"q", "u", "o", "t", "a">>,
      <<"t", "r", "y", " ", "a", "g", "a", "i", "n", " ", "l", "a", "t", "e", "r">>,
      <<"o", "v", "e", "r", "l", "o", "a", "d", "e", "d">>,
      <<"c", "a", "p", "a", "c", "i", "t", "y">>,
      <<"c", "o", "o", "l", "d", "o", "w", "n">> }

FullVocabulary == ClaimedVocabulary \cup {<<"r", "a", "t", "e", "_", "l", "i", "m", "i", "t">>}

Matches(err, vocabulary) == \E sig \in vocabulary : Contains(Lower(err), sig)

\* the last finished call ended by a non-zero exit
NonZeroExit ==
    /\ cli_pc = "idle"
    /\ cli_ncalls > 0
    /\ cli_result.o.t = "exit"
    /\ cli_result.o.returncode # 0

\* what the claim says of a non-zero exit, for a given vocabulary
Classified(vocabulary) ==
    NonZeroExit =>
        LET err == cli_result.o.stderr
            exc == cli_result.res.exc
            text == cli_result.msg.text
        IN  /\ cli_result.res.kind = "raise"
            /\ Matches(err, vocabulary) => exc.cls = "CliRateLimitError"
            /\ ~Matches(err, vocabulary) =>
                  /\ exc.cls = "RuntimeError"
                  /\ Len(text) <= 500
                  /\ err # <<>> => /\ Len(text) = Min(500, Len(err))
                                   /\ \A i \in 1..Len(text) : text[i] = err[i]

\* C13 as stated: with the vocabulary of seven signals (rate limit, 429,
\* quota, try again later, overloaded, capacity, cooldown), a non-zero exit
\* whose stderr holds a signal raises CliRateLimitError and any other raises
\* RuntimeError with at most the first 500 characters of stderr.
C13_SevenSignals == Classified(ClaimedVocabulary)

\* C13: with the vocabulary of eight signals (the seven and rate_limit), a
\* non-zero exit of a CLI adapter whose stderr holds a signal, in any case,
\* raises CliRateLimitError; any other stderr, or an empty one, raises
\* RuntimeError whose message carries at most the first 500 characters of
\* stderr.
C13_CliFailureClassified == Classified(FullVocabulary)

\* the Codex CLI exited non-zero saying 'Rate limit exceeded, try again later'
C13_Witness ==
    /\ NonZeroExit
    /\ cli_provider = "codex"
    /\ cli_result.o.stderr = 
          <<"R", "a", "t", "e", " ", "l", "i", "m", "i", "t", " ", "e", "x", "c", "e", "e", "d", "e", "d", ",", " ">> \o
          <<"t", "r", "y", " ", "a", "g", "a", "i", "n", " ", "l", "a", "t", "e", "r">>
    /\ cli_result.res.exc.cls = "CliRateLimitError"
    /\ \E i \in 1..Len(cli_log) : cli_log[i].cls = "RuntimeError"

(***************************************************************************)
(* Properties of the automated extraction loop.                            *)
(***************************************************************************)
Occurrences(doc) ==
    Cardinality({j \in 1..Len(failures) : failures[j].source_file = doc})

\* C17: an exception raised while a document is processed never stops the
\* loop: when the run has ended every document of the work list has been
\* handled, in work-list order, and a document is in the failure list once
\* if its processing raised and not at all otherwise; while the run goes on,
\* a failure of a document that is not the last leaves the loop at the next
\* document.
C17_BatchIsolation ==
    /\ \A k \in 1..Len(handled) :
          /\ handled[k].doc = work[k]
          /\ Occurrences(work[k]) = IF handled[k].outcome = "failed" THEN 1 ELSE 0
    /\ b_pc = "exited" => Len(handled) = Len(work)
    /\ (b_pc # "exited" /\ handled # <<>>) => b_i <= Len(handled) + 1
    /\ (b_pc = "next" /\ Len(handled) < Len(work)) => b_i = Len(handled) + 1

\* the run has ended; the first document failed in analyze_document, a later
\* one failed too and the last one got its manifest
C17_Witness ==
    /\ b_pc = "exited"
    /\ Len(work) = 3
    /\ failures = <<Failure(1, "analyze_document"), Failure(2, "write_manifest")>>
    /\ handled[3].outcome = "succeeded"
    /\ 3 \in manifests

(***************************************************************************)
(* Properties of the strict-mode schema transform.                         *)
(***************************************************************************)
RECURSIVE StrictBelow(_, _)
StrictBelow(n, isProperty) ==
    /\ n.type = "object" =>
          /\ n.additionalProperties = "false"
          /\ n.hasRequired
          /\ {n.required[i] : i \in 1..Len(n.required)} = DOMAIN n.props
          /\ Len(n.required) = Cardinality(DOMAIN n.props)
    /\ isProperty => ~n.hasDefault
    /\ \A k \in DOMAIN n.props : StrictBelow(n.props[k], TRUE)
    /\ n.hasItems => StrictBelow(n.items, FALSE)
    /\ \A k \in DOMAIN n.defs : StrictBelow(n.defs[k], FALSE)

\* C21: after _make_openai_strict, every object node of the schema, under
\* any nesting of properties, items and $defs, has additionalProperties =
\* false and a required list that is exactly the keys of its properties, and
\* no property node keeps a default key.
C21_StrictEverywhere == schema_out # None => StrictBelow(schema_out, FALSE)

(***************************************************************************)
(* Properties of the inference metadata.                                   *)
(***************************************************************************)
\* C22: the metadata a successful analyze returns carries
\* estimated_input_tokens equal to floor(len(text) / 4), for each adapter and
\* whether or not usage was reported.
C22_EstimatedInputTokens ==
    inference # None =>
        /\ "estimated_input_tokens" \in DOMAIN inference
        /\ inference.estimated_input_tokens = inf_text_len \div 4

(***************************************************************************)
(* Properties of the Codex usage extraction.                               *)
(***************************************************************************)
IsCompleted(line) == line.json = "event" /\ line.type = "turn.completed"

Completed == {i \in 1..Len(codex_stdout) : IsCompleted(codex_stdout[i])}

LastCompleted == CHOOSE i \in Completed : \A j \in Completed : j <= i

\* the count the claim gives for a key of a turn.completed event
ClaimedCount(line, key) ==
    IF line.usage.entry = "dict" /\ line.usage.dict[key].present
    THEN line.usage.dict[key].n
    ELSE 0

\* C23: whatever the stdout of the Codex CLI, the scan never fails the call;
\* input_tokens and output_tokens are those of the usage of the
\* turn.completed event, and both are 0 when there is no such event or it
\* carries no usage.
C23_UsageExtraction ==
    usage_result # None =>
        /\ usage_result.kind = "ok"
        /\ IF Completed = {}
           THEN usage_result.input_tokens = 0 /\ usage_result.output_tokens = 0
           ELSE /\ usage_result.input_tokens =
                       ClaimedCount(codex_stdout[LastCompleted], "input_tokens")
                /\ usage_result.output_tokens =
                       ClaimedCount(codex_stdout[LastCompleted], "output_tokens")

(***************************************************************************)
(* Properties of the atomic manifest write.                                *)
(***************************************************************************)
WmDone == m_pc = "idle" /\ m_ncalls > 0

\* C24: once write_manifest has returned, <first 12 characters of the
\* sha256>.json is in the manifests directory with this call's manifest and
\* no .tmp file is left; once it has raised, no .tmp file is left and the
\* .json files are as they were before the call.
C24_AtomicManifestWrite ==
    WmDone =>
        /\ m_tmp = {}
        /\ m_result.kind = "return" =>
              /\ m_result.path = m_sha.head \o ".json"
              /\ \E f \in m_dir :
                    /\ f.name = m_sha.head \o ".json"
                    /\ f.content.source_sha256 = m_sha
                    /\ f.content.written_by = m_ncalls
              /\ \A f, g \in m_dir : f.name = g.name => f = g
        /\ m_result.kind = "raise" => m_dir = m_before

\* the rename failed while a manifest of the same name was there: it is
\* still the one an earlier call wrote
C24_Witness ==
    /\ WmDone
    /\ m_result = WmRaises("rename")
    /\ \E f \in m_dir : f.name = filename(m_sha) /\ f.content.written_by < m_ncalls

(***************************************************************************)
(* Properties of the wrapper's order of invocations, warnings and sleeps.  *)
(***************************************************************************)
EventsOf(ev) == {i \in 1..Len(r_events) : r_events[i].ev = ev}

WrapperDone == pc \in {"returned", "raised"}

\* C25: the wrapped function is invoked at least once and at most
\* max_attempts times; every sleep comes right after the warning for a
\* retryable failure of an attempt below max_attempts, that warning right
\* after the failed invocation, and the sleep is followed by the next
\* invocation; no sleep follows the final attempt or a propagated error.
C25_AttemptBoundAndSleepPlacement ==
    /\ Cardinality(EventsOf("call")) = calls
    /\ calls <= max_attempts
    /\ WrapperDone => calls >= 1
    /\ Len(sleeps) = Cardinality(EventsOf("sleep"))
    /\ \A i \in EventsOf("sleep") :
          /\ i >= 3
          /\ r_events[i - 1].ev = "warning"
          /\ r_events[i - 1].delay = r_events[i].delay
          /\ r_events[i - 2].ev = "call"
          /\ r_events[i - 2].kind = "raise"
          /\ r_events[i - 2].attempt = r_events[i - 1].attempt
          /\ r_events[i - 2].attempt < max_attempts
          /\ Caught(r_events[i - 1].exc)
          /\ IF i < Len(r_events) THEN r_events[i + 1].ev = "call" ELSE pc = "call"
    /\ \A i \in EventsOf("warning") :
          i < Len(r_events) /\ r_events[i + 1].ev = "sleep"
    /\ WrapperDone => r_events[Len(r_events)].ev = "call"

\* three attempts failed with retryable errors: call, warning, sleep, twice,
\* then the last call
C25_Witness ==
    /\ pc = "raised"
    /\ max_attempts = 3
    /\ Len(r_events) = 7
    /\ r_events[6].ev = "sleep"

\* C26: when the wrapper has returned after k invocations, the first k-1
\* raised retryable errors, the k-th returned and its result is what the
\* wrapper returned, the wrapper slept k-1 times, and at no time does an
\* invocation follow one that returned.
C26_RetrySuccess ==
    /\ \A i \in 1..(Len(trace) - 1) : trace[i].kind = "raise" /\ Caught(trace[i].exc)
    /\ pc = "returned" =>
          /\ Len(trace) = calls
          /\ calls <= max_attempts
          /\ trace[calls].kind = "return"
          /\ outcome = trace[calls]
          /\ outcome.id = calls
          /\ Len(sleeps) = calls - 1

\* the third invocation returned after two retryable failures
C26_Witness ==
    /\ pc = "returned"
    /\ calls = 3
    /\ Len(sleeps) = 2
    /\ outcome.id = 3

(***************************************************************************)
(* Properties of the order of calls for one document and of the counters.  *)
(***************************************************************************)
CallsOf(call) == {i \in 1..Len(events) : events[i].call = call}

\* the document whose calls events holds
EventsDoc == events[1].doc

AnalysisFailed(doc) ==
    \E j \in 1..Len(failures) : failures[j] = Failure(doc, "analyze_document")

\* C27: for the document being processed, the extracted text is written
\* before any analyze_document call; the chunks are analyzed in ascending
\* order, one per call; merge_chunk_analyses and write_manifest come only
\* after all chunks have been analyzed; when the analysis of a chunk raised,
\* no later chunk is analyzed, the document gets no manifest and its
\* extracted text stays written.
C27_PerDocumentOrdering ==
    /\ \A i \in CallsOf("analyze_document") :
          /\ \E j \in CallsOf("write_extracted_text") : j < i
          /\ EventsDoc \in texts
          /\ events[i].k = Cardinality({j \in CallsOf("analyze_document") : j < i})
          /\ events[i].k < b_nchunks
    /\ \A i \in CallsOf("merge_chunk_analyses") \cup CallsOf("write_manifest") :
          /\ Cardinality(CallsOf("analyze_document")) = b_nchunks
          /\ \A j \in CallsOf("analyze_document") : j < i
          /\ Len(chunk_results) = b_nchunks
    /\ \A i \in CallsOf("merge_chunk_analyses") :
          b_nchunks > 1 /\ \A j \in CallsOf("write_manifest") : i < j
    /\ \A k \in 1..Len(handled) :
          AnalysisFailed(handled[k].doc) =>
             /\ handled[k].doc \notin manifests
             /\ handled[k].doc \in texts
    /\ (events # <<>> /\ AnalysisFailed(EventsDoc)) =>
          /\ events[Len(events)].call = "analyze_document"
          /\ events[Len(events)].k = Len(chunk_results)
          /\ CallsOf("merge_chunk_analyses") \cup CallsOf("write_manifest") = {}

\* the second of three chunks raised: chunk 2 was never analyzed
C27_Witness ==
    /\ events # <<>>
    /\ AnalysisFailed(EventsDoc)
    /\ b_nchunks = 3
    /\ Cardinality(CallsOf("analyze_document")) = 2
    /\ EventsDoc \in texts
    /\ EventsDoc \notin manifests

OutcomeCount(how) ==
    Cardinality({k \in 1..Len(handled) : handled[k].outcome = how})

\* C28: after each document, succeeded + failed + skipped is the number of
\* documents handled and the failure list is as long as failed; each
\* handled document has exactly one outcome, counted in its counter; a
\* skipped document has no analysis call, no extracted text and no manifest;
\* at the end the three counters sum to the size of the work list.
C28_BatchAccounting ==
    /\ succeeded + failed + skipped = Len(handled)
    /\ Len(failures) = failed
    /\ succeeded = OutcomeCount("succeeded")
    /\ failed = OutcomeCount("failed")
    /\ skipped = OutcomeCount("skipped")
    /\ \A k \in 1..Len(handled) :
          /\ handled[k].outcome \in {"succeeded", "failed", "skipped"}
          /\ handled[k].doc = work[k]
          /\ handled[k].outcome = "skipped" =>
                /\ handled[k].doc \notin manifests
                /\ handled[k].doc \notin texts
          /\ handled[k].outcome = "succeeded" <=> handled[k].doc \in manifests
    /\ (handled # <<>> /\ handled[Len(handled)].outcome = "skipped"
            /\ b_pc \in {"next", "exited"}) =>
          /\ EventsDoc = handled[Len(handled)].doc
          /\ CallsOf("analyze_document") = {}
    /\ b_pc = "exited" => succeeded + failed + skipped = Len(work)

\* a run of three documents ended with one in each outcome
C28_Witness ==
    /\ b_pc = "exited"
    /\ succeeded = 1
    /\ failed = 1
    /\ skipped = 1

(***************************************************************************)
(* Properties of the chunk plan.                                           *)
(***************************************************************************)
\* C29: for a text that reaches the threshold, the chunks come in list
\* order with chunk_index 0..n-1 and total_chunks n, the first starts at
\* page 1, each later one at the page after the previous end, every chunk
\* has between 1 and chunk_pages pages, and the last ends at total_pages;
\* a text below the threshold gives one chunk for pages 1..total_pages.
C29_ChunkPlanPartition ==
    c_pc = "done" =>
        LET n == Len(chunks)
        IN  IF full_text_len(c_result) >= 100000
            THEN /\ n >= 1
                 /\ chunks[1].page_start = 1
                 /\ chunks[n].page_end = c_result.total_pages
                 /\ \A k \in 1..n :
                       /\ chunks[k].chunk_index = k - 1
                       /\ chunks[k].total_chunks = n
                       /\ chunks[k].page_start <= chunks[k].page_end
                       /\ chunks[k].page_end - chunks[k].page_start + 1 <= c_chunk_pages
                       /\ k > 1 => chunks[k].page_start = chunks[k - 1].page_end + 1
                       /\ chunks[k].text.first = chunks[k].page_start
                       /\ Len(chunks[k].text.pages)
                              = chunks[k].page_end - chunks[k].page_start + 1
            ELSE /\ n = 1
                 /\ chunks[1].page_start = 1
                 /\ chunks[1].page_end = c_result.total_pages
                 /\ chunks[1].chunk_index = 0
                 /\ chunks[1].total_chunks = 1

\* 101 pages in chunks of 50: the third chunk is page 101 alone
C29_Witness ==
    /\ c_pc = "done"
    /\ c_chunk_pages = 50
    /\ Len(chunks) = 3
    /\ chunks[3].page_start = 101
    /\ chunks[3].page_end = 101

(***************************************************************************)
(* Properties of resuming a run.                                           *)
(***************************************************************************)
\* C30: the work list built for a run holds exactly the scanned documents
\* whose SHA-256 is in no manifest written in that run so far, so a document
\* whose manifest was written is not analyzed again and a document without a
\* manifest is in the work list of the next resume.
C30_ResumeSkipsCompletedOnly ==
    rs_runs > 0 =>
        Elems(rs_work) = {d \in Elems(rs_docs) : d.sha256 \notin rs_before}

====
